---- MODULE Spec2Model ----
(***************************************************************************)
(* Timeline, range and filter-selection state of the SFPD drone-flight     *)
(* dashboard.                                                              *)
(*                                                                         *)
(* Dashboard (MapWithTimeline.tsx 893-1310) owns the time range and the    *)
(* facet selections; the MapWithTimeline component owns the playback       *)
(* position, the play state and the drag state.  The source holds two      *)
(* revisions of MapWithTimeline: the "loop" revision (lines 1-330, loop    *)
(* checkbox, fixed speed) and the "speed" revision (lines 332-731, speed   *)
(* selector, no loop).  The variable `version` selects the revision for a  *)
(* whole behaviour.                                                        *)
(*                                                                         *)
(* Time.  The code computes with JavaScript doubles in milliseconds.  The  *)
(* model uses fixed point: one time unit is 1/MS millisecond, with         *)
(* MS = 4 * 500, so that (re - rs) / 500 * speed is a whole number of      *)
(* units for every range of whole milliseconds and every speed in          *)
(* PLAY_SPEEDS (held in quarters).  The literal 1 of the code (one         *)
(* millisecond) is MS units.  A record's date is held as its parsed        *)
(* timestamp.                                                              *)
(*                                                                         *)
(* Specifications.                                                         *)
(*   Spec       every timeline and range operation, from the first render, *)
(*              over datasets a few milliseconds long;                     *)
(*   SpecTick   the interval callback alone, from every playing state of a *)
(*              dataset long enough for the proportional step to exceed    *)
(*              one millisecond; FairSpecPlay starts it at the range start *)
(*              and adds the timer's fairness;                             *)
(*   SpecPanel  seeking, playback and the facet toggles with the range     *)
(*              left where the load put it.                                *)
(***************************************************************************)
EXTENDS Integers, Sequences, FiniteSets, TLC

VARIABLES
    version,               \* "loop" | "speed": revision of MapWithTimeline
    flights,               \* Dashboard prop: sequence of records, ascending date
    phase,                 \* "server" | "error": Home not rendered;
                           \* "mounted" | "clamped" | "ready": mount effects
                           \* run; "unmounted"
    rangeStartTs,          \* Dashboard state
    rangeEndTs,            \* Dashboard state
    selectedReasons,       \* Dashboard state
    showAllReasons,        \* Dashboard state
    selectedNeighborhoods, \* Dashboard state
    selectedDistricts,     \* Dashboard state
    selectedDurations,     \* Dashboard state
    playbackTs,            \* MapWithTimeline state
    isPlaying,             \* MapWithTimeline state
    loop,                  \* MapWithTimeline state (loop revision)
    playSpeed,             \* MapWithTimeline state (speed revision), quarters
    dragPlayhead,          \* MapWithTimeline state
    dragHandle,            \* MapWithTimeline state: "in" | "out" | "none"
    showAllPoints,         \* MapWithTimeline state (speed revision)
    intervals,             \* interval timers set and not cleared
    listeners,             \* window listeners added and not removed, by effect
    lastOp                 \* history: the handler that ran last and its input

propVars == <<version, flights>>
rangeVars == <<rangeStartTs, rangeEndTs>>
facetVars == <<selectedReasons, showAllReasons, selectedNeighborhoods,
               selectedDistricts, selectedDurations>>
settingVars == <<loop, playSpeed>>
dragVars == <<dragPlayhead, dragHandle>>

vars == <<version, flights, phase, rangeStartTs, rangeEndTs, selectedReasons,
          showAllReasons, selectedNeighborhoods, selectedDistricts,
          selectedDurations, playbackTs, isPlaying, loop, playSpeed,
          dragPlayhead, dragHandle, showAllPoints, intervals, listeners,
          lastOp>>

----------------------------------------------------------------------------
(* Bounds of the model *)

MaxTs == 4          \* latest record timestamp of Spec, in milliseconds
MaxDrift == 1       \* milliseconds a range end may leave [0, MaxTs]
WideSpan == 1000    \* extent of the dataset of SpecTick, in milliseconds
NarrowSpan == 3     \* width of the narrow range of SpecTick, in milliseconds

----------------------------------------------------------------------------
(* Program constants *)

STEP_DIVISOR == 500
SpeedDenom == 4
PLAY_SPEEDS == {1, 2, 3, 4}
InitialPlaySpeed == 2
MS == SpeedDenom * STEP_DIVISOR

Max(a, b) == IF a >= b THEN a ELSE b
Min(a, b) == IF a <= b THEN a ELSE b

----------------------------------------------------------------------------
(* Inputs *)

\* A record of the dataset; date is the parsed timestamp.
flightAt(ms) == [date |-> ms * MS]

\* Datasets in ascending date order (page.tsx sorts them): no record, one
\* record, two records at one timestamp, two records at two timestamps.
Datasets ==
    {<< >>,
     <<flightAt(1)>>,
     <<flightAt(1), flightAt(1)>>,
     <<flightAt(1), flightAt(MaxTs)>>}

\* Pointer x relative to the track, as a percentage of the track width.
RawPcts == {0 - 50, 50, 150}

\* Labels of the facet buttons.
ReasonLabels == {"Fire"}
NeighborhoodLabels == {"Unknown"}
DistrictLabels == {"9"}
DurationIds == {"short", "medium", "long"}

InWindow(x) == x >= 0 - MaxDrift * MS /\ x <= (MaxTs + MaxDrift) * MS

----------------------------------------------------------------------------
(* Derived values *)

\* Math.min(...times) and Math.max(...times) of a non-empty record list.
SeqMin(s) ==
    CHOOSE t \in {s[i].date : i \in 1..Len(s)} :
        \A i \in 1..Len(s) : t <= s[i].date
SeqMax(s) ==
    CHOOSE t \in {s[i].date : i \in 1..Len(s)} :
        \A i \in 1..Len(s) : t >= s[i].date

minTsOf(fs) == IF Len(fs) = 0 THEN 0 ELSE SeqMin(fs)
maxTsOf(fs) == IF Len(fs) = 0 THEN 0 ELSE SeqMax(fs)

minTs == minTsOf(flights)
maxTs == maxTsOf(flights)

pointerPct(raw) == Max(0, Min(100, raw))

pctToTs(pct) == minTs + ((maxTs - minTs) * pct) \div 100

\* A quotient of the code that is kept exact: <<numerator, denominator>>.
\* The number 0 is <<0, 1>>.
tsToPct(ts) ==
    IF maxTs <= minTs THEN <<0, 1>> ELSE <<(ts - minTs) * 100, maxTs - minTs>>

WAVEFORM_BUCKETS == 80

\* Mutant: a record at maxTs falls past the last bucket and is not counted.
bucketOf_NoLast(t, lo, hi) == ((t - lo) * WAVEFORM_BUCKETS) \div (hi - lo)

\* Bucket of timestamp t, 0-based: floor((t - minTs) / step) with
\* step = (maxTs - minTs) / WAVEFORM_BUCKETS, capped at the last bucket.
bucketOf(t, lo, hi) ==
    Min(WAVEFORM_BUCKETS - 1, ((t - lo) * WAVEFORM_BUCKETS) \div (hi - lo))

\* counts of waveformHeights; bucket i of the code is element i + 1.
waveformCounts(fs, lo, hi) ==
    LET at == [j \in 1..Len(fs) |-> bucketOf(fs[j].date, lo, hi)] \o << >>
    IN  [b \in 1..WAVEFORM_BUCKETS |->
            Cardinality({j \in 1..Len(fs) : at[j] = b - 1})] \o << >>

\* Mutant: the counts are divided by the number of records.
waveformHeightsMemo_ByTotal(fs, lo, hi) ==
    IF Len(fs) = 0 \/ hi <= lo
    THEN [b \in 1..WAVEFORM_BUCKETS |-> <<0, 1>>]
    ELSE LET counts == waveformCounts(fs, lo, hi)
         IN  [b \in 1..WAVEFORM_BUCKETS |-> <<counts[b], Len(fs)>>] \o << >>

\* The memo callback of waveformHeights, over its dependencies.
waveformHeightsMemo(fs, lo, hi) ==
    IF Len(fs) = 0 \/ hi <= lo
    THEN [b \in 1..WAVEFORM_BUCKETS |-> <<0, 1>>]
    ELSE LET counts == waveformCounts(fs, lo, hi)
             maxCount == CHOOSE m \in {1} \cup {counts[b] : b \in DOMAIN counts} :
                            \A b \in DOMAIN counts : m >= counts[b]
         IN  [b \in 1..WAVEFORM_BUCKETS |-> <<counts[b], maxCount>>] \o << >>

waveformHeights == waveformHeightsMemo(flights, minTs, maxTs)

clampTs(rs, re, prev) == Max(rs, Min(re, prev))

\* Mutant: the clamp effect does nothing.
clampEffect_NoClamp(rs, re, prev, changed) == prev

\* Mutant: the clamp effect only raises the position to the range start.
clampEffect_LowerOnly(rs, re, prev, changed) ==
    IF ~changed \/ maxTs <= minTs THEN prev ELSE Max(rs, prev)

\* Position after the clamp effect, which runs when one of its dependencies
\* (the range) changed in the render.
clampEffect(rs, re, prev, changed) ==
    IF ~changed \/ maxTs <= minTs THEN prev ELSE clampTs(rs, re, prev)

\* Mutant: the speed multiplier is dropped from the step.
stepOf_NoSpeed(rs, re, speed) == Max(MS, (re - rs) \div STEP_DIVISOR)

stepOf(rs, re, speed) ==
    IF version = "loop"
    THEN Max(MS, (re - rs) \div STEP_DIVISOR)
    ELSE Max(MS, ((re - rs) * speed) \div (STEP_DIVISOR * SpeedDenom))

----------------------------------------------------------------------------
(* Initial state: first render of Dashboard and MapWithTimeline *)

Init ==
    /\ version \in {"loop", "speed"}
    /\ flights \in Datasets
    /\ phase = "mounted"
    /\ showAllPoints = FALSE
    /\ intervals = 0
    /\ listeners = [playhead |-> 0, handle |-> 0]
    /\ rangeStartTs = 0
    /\ rangeEndTs = 0
    /\ selectedReasons = {}
    /\ showAllReasons = FALSE
    /\ selectedNeighborhoods = {}
    /\ selectedDistricts = {}
    /\ selectedDurations = {}
    /\ playbackTs = maxTsOf(flights)
    /\ isPlaying = FALSE
    /\ loop = FALSE
    /\ playSpeed = InitialPlaySpeed
    /\ dragPlayhead = FALSE
    /\ dragHandle = "none"
    /\ lastOp = <<"render", 0>>

----------------------------------------------------------------------------
(* Effects with resources.  An effect runs at the commit that changes one  *)
(* of its dependencies: the cleanup its last run returned first, then its  *)
(* body.  The body returns a cleanup exactly when it passes its guard, and  *)
(* every input of the guard is a dependency, so a cleanup is pending        *)
(* exactly when the guard held before the step.                            *)

\* Dependencies and guard of the playback interval effect.
intervalDeps ==
    IF version = "speed"
    THEN <<isPlaying>>
    ELSE <<isPlaying, loop, rangeStartTs, rangeEndTs>>

intervalGuard ==
    IF version = "speed"
    THEN isPlaying
    ELSE isPlaying /\ rangeEndTs > rangeStartTs

\* Mutant: the effect returns no cleanup.
playbackEffect_NoCleanup(live, changed, had, has) ==
    IF changed THEN live + (IF has THEN 1 ELSE 0) ELSE live

\* Live interval timers after a commit: clearInterval of the pending
\* cleanup, setInterval of the body.
playbackEffect(live, changed, had, has) ==
    IF changed
    THEN live - (IF had THEN 1 ELSE 0) + (IF has THEN 1 ELSE 0)
    ELSE live

\* Mutant: the cleanup removes the mousemove listener only.
dragEffect_KeepsUp(live, changed, had, has) ==
    IF changed
    THEN live - (IF had THEN 1 ELSE 0) + (IF has THEN 2 ELSE 0)
    ELSE live

\* Attached window listeners of a drag effect after a commit: the pending
\* cleanup removes mousemove and mouseup, the body adds them.
dragEffect(live, changed, had, has) ==
    IF changed
    THEN live - (IF had THEN 2 ELSE 0) + (IF has THEN 2 ELSE 0)
    ELSE live

\* The effects of MapWithTimeline that hold resources, at the commit of a
\* step.
runEffects ==
    /\ intervals' = playbackEffect(intervals, intervalDeps' # intervalDeps,
                                   intervalGuard, intervalGuard')
    /\ listeners' =
          [playhead |-> dragEffect(listeners.playhead,
                                   dragPlayhead' # dragPlayhead,
                                   dragPlayhead, dragPlayhead'),
           handle |-> dragEffect(listeners.handle, dragHandle' # dragHandle,
                                 dragHandle # "none", dragHandle' # "none")]

----------------------------------------------------------------------------
(* Mount effects *)

\* Mutant: the clamp effect does not run on mount.
MountClampEffect_Skipped ==
    /\ phase = "mounted"
    /\ phase' = "clamped"
    /\ lastOp' = <<"mountClamp", 0>>
    /\ UNCHANGED <<propVars, rangeVars, facetVars, playbackTs, isPlaying,
                   settingVars, dragVars>>
    /\ UNCHANGED showAllPoints
    /\ runEffects

\* MapWithTimeline's clamp effect on mount (children's effects run first).
MountClampEffect ==
    /\ phase = "mounted"
    /\ phase' = "clamped"
    /\ playbackTs' = clampEffect(rangeStartTs, rangeEndTs, playbackTs, TRUE)
    /\ lastOp' = <<"mountClamp", 0>>
    /\ UNCHANGED <<propVars, rangeVars, facetVars, isPlaying, settingVars,
                   dragVars>>
    /\ UNCHANGED showAllPoints
    /\ runEffects

\* Dashboard's range-init effect, and the clamp effect of the re-render.
RangeInitEffect ==
    /\ phase = "clamped"
    /\ phase' = "ready"
    /\ IF Len(flights) > 0 /\ maxTs > minTs
       THEN /\ rangeStartTs' = minTs
            /\ rangeEndTs' = maxTs
            /\ playbackTs' = clampEffect(minTs, maxTs, playbackTs,
                                <<minTs, maxTs>> # <<rangeStartTs, rangeEndTs>>)
       ELSE UNCHANGED <<rangeStartTs, rangeEndTs, playbackTs>>
    /\ lastOp' = <<"rangeInit", 0>>
    /\ UNCHANGED <<propVars, facetVars, isPlaying, settingVars, dragVars>>
    /\ UNCHANGED showAllPoints
    /\ runEffects

\* The timeline controls exist once mounted with a non-empty dataset.
Interactive == phase = "ready" /\ Len(flights) > 0

----------------------------------------------------------------------------
(* Range changes *)

\* handleTimelineRangeChange followed by the clamp effect of the re-render;
\* basePos is the position set by the same event, if any.
handleTimelineRangeChange(startTs, endTs, basePos) ==
    /\ InWindow(startTs) /\ InWindow(endTs)
    /\ rangeStartTs' = startTs
    /\ rangeEndTs' = endTs
    /\ playbackTs' = clampEffect(startTs, endTs, basePos,
                        <<startTs, endTs>> # <<rangeStartTs, rangeEndTs>>)

setInPoint ==
    /\ Interactive
    /\ handleTimelineRangeChange(playbackTs, rangeEndTs, playbackTs)
    /\ lastOp' = <<"setInPoint", 0>>
    /\ UNCHANGED <<propVars, phase, facetVars, isPlaying, settingVars,
                   dragVars>>
    /\ UNCHANGED showAllPoints
    /\ runEffects

setOutPoint ==
    /\ Interactive
    /\ handleTimelineRangeChange(rangeStartTs, playbackTs, playbackTs)
    /\ lastOp' = <<"setOutPoint", 0>>
    /\ UNCHANGED <<propVars, phase, facetVars, isPlaying, settingVars,
                   dragVars>>
    /\ UNCHANGED showAllPoints
    /\ runEffects

----------------------------------------------------------------------------
(* Pointer handlers *)

\* Mutant: a click on the track also pauses playback.
handleTrackClick_Pauses(raw) ==
    /\ Interactive
    /\ playbackTs' = pctToTs(pointerPct(raw))
    /\ isPlaying' = FALSE
    /\ lastOp' = <<"trackClick", pointerPct(raw)>>
    /\ UNCHANGED <<propVars, phase, rangeVars, facetVars, settingVars,
                   dragVars>>
    /\ UNCHANGED showAllPoints
    /\ runEffects

handleTrackClick(raw) ==
    /\ Interactive
    /\ playbackTs' = pctToTs(pointerPct(raw))
    /\ lastOp' = <<"trackClick", pointerPct(raw)>>
    /\ UNCHANGED <<propVars, phase, rangeVars, facetVars, isPlaying,
                   settingVars, dragVars>>
    /\ UNCHANGED showAllPoints
    /\ runEffects

\* A drag in progress: the pointer holds one element from mousedown to
\* mouseup, so no second mousedown arrives in between.
dragging == dragPlayhead \/ dragHandle # "none"

handlePlayheadMouseDown ==
    /\ Interactive
    /\ ~dragging
    /\ dragPlayhead' = TRUE
    /\ lastOp' = <<"playheadDown", 0>>
    /\ UNCHANGED <<propVars, phase, rangeVars, facetVars, playbackTs,
                   isPlaying, settingVars, dragHandle>>
    /\ UNCHANGED showAllPoints
    /\ runEffects

handleMouseDown(h) ==
    /\ Interactive
    /\ ~dragging
    /\ dragHandle' = h
    /\ lastOp' = <<"handleDown", 0>>
    /\ UNCHANGED <<propVars, phase, rangeVars, facetVars, playbackTs,
                   isPlaying, settingVars, dragPlayhead>>
    /\ UNCHANGED showAllPoints
    /\ runEffects

\* Mutant: the start handle follows the pointer past the end handle.
dragRange_NoMin(ts) ==
    IF dragHandle = "in"
    THEN <<ts, rangeEndTs>>
    ELSE <<rangeStartTs, Max(ts, rangeStartTs + MS)>>

\* Mutant: the handles may meet (no minimum separation).
dragRange_NoGap(ts) ==
    IF dragHandle = "in"
    THEN <<Min(ts, rangeEndTs), rangeEndTs>>
    ELSE <<rangeStartTs, Max(ts, rangeStartTs)>>

\* Range requested by the handle listener for a pointer at timestamp ts.
dragRange(ts) ==
    IF dragHandle = "in"
    THEN <<Min(ts, rangeEndTs - MS), rangeEndTs>>
    ELSE <<rangeStartTs, Max(ts, rangeStartTs + MS)>>

\* window mousemove, heard by the listener of the playhead drag effect.
onMovePlayhead(raw) ==
    /\ Interactive
    /\ listeners.playhead > 0
    /\ playbackTs' = pctToTs(pointerPct(raw))
    /\ lastOp' = <<"movePlayhead", pointerPct(raw)>>
    /\ UNCHANGED <<propVars, phase, rangeVars, facetVars, isPlaying,
                   settingVars, dragVars>>
    /\ UNCHANGED showAllPoints
    /\ runEffects

\* window mousemove, heard by the listener of the handle drag effect.
onMoveHandle(raw) ==
    LET ts == pctToTs(pointerPct(raw))
    IN  /\ Interactive
        /\ listeners.handle > 0
        /\ handleTimelineRangeChange(dragRange(ts)[1], dragRange(ts)[2],
                                     playbackTs)
        /\ lastOp' = <<"moveHandle", pointerPct(raw)>>
        /\ UNCHANGED <<propVars, phase, facetVars, isPlaying, settingVars,
                       dragVars>>
        /\ UNCHANGED showAllPoints
        /\ runEffects

\* window mouseup, heard by the listeners of the drag effects: the drag in
\* progress ends.
onUp ==
    /\ Interactive
    /\ listeners.playhead > 0 \/ listeners.handle > 0
    /\ dragPlayhead' = FALSE
    /\ dragHandle' = "none"
    /\ lastOp' = <<"up", 0>>
    /\ UNCHANGED <<propVars, phase, rangeVars, facetVars, playbackTs,
                   isPlaying, settingVars>>
    /\ UNCHANGED showAllPoints
    /\ runEffects

----------------------------------------------------------------------------
(* Playback *)

\* Mutant: a position before the range start is not seen as outside.
outsideRange_AboveOnly == playbackTs > rangeEndTs

\* Mutant: a position on the range end is seen as outside.
outsideRange_AtEnd == playbackTs < rangeStartTs \/ playbackTs >= rangeEndTs

\* The play button finds the position outside the range.
outsideRange == playbackTs < rangeStartTs \/ playbackTs > rangeEndTs

\* lastOp records 1 when the button snapped the position to the range start.
playButton ==
    /\ Interactive
    /\ playbackTs' =
          IF ~isPlaying /\ outsideRange THEN rangeStartTs ELSE playbackTs
    /\ isPlaying' = ~isPlaying
    /\ lastOp' = <<"playButton", IF ~isPlaying /\ outsideRange THEN 1 ELSE 0>>
    /\ UNCHANGED <<propVars, phase, rangeVars, facetVars, settingVars,
                   dragVars>>
    /\ UNCHANGED showAllPoints
    /\ runEffects

\* Mutant: reaching the range end does not stop playback.
tickResult_NoStop(t, rs, re, speed, lp) ==
    LET next == t + stepOf(rs, re, speed)
    IN  IF next >= re
        THEN IF version = "loop" /\ lp
             THEN <<rs, TRUE, 2>>
             ELSE <<re, TRUE, 1>>
        ELSE <<next, TRUE, 0>>

\* Mutant: the loop wraps to the range start but stops there.
tickResult_WrapStops(t, rs, re, speed, lp) ==
    LET next == t + stepOf(rs, re, speed)
    IN  IF next >= re
        THEN IF version = "loop" /\ lp
             THEN <<rs, FALSE, 2>>
             ELSE <<re, FALSE, 1>>
        ELSE <<next, TRUE, 0>>

\* Mutant: the last step runs past the range end before playback stops.
tickResult_Overshoot(t, rs, re, speed, lp) ==
    LET next == t + stepOf(rs, re, speed)
    IN  IF next >= re
        THEN IF version = "loop" /\ lp
             THEN <<rs, TRUE, 2>>
             ELSE <<next, FALSE, 1>>
        ELSE <<next, TRUE, 0>>

\* Position, play state and branch (0 advance, 1 stop, 2 wrap) of one
\* interval callback on a non-degenerate range.
tickResult(t, rs, re, speed, lp) ==
    LET next == t + stepOf(rs, re, speed)
    IN  IF next >= re
        THEN IF version = "loop" /\ lp
             THEN <<rs, TRUE, 2>>
             ELSE <<re, FALSE, 1>>
        ELSE <<next, TRUE, 0>>

\* One callback of a live interval.  For a degenerate range the loop
\* revision creates no interval and the callback of the speed revision
\* returns before it changes anything (branch 3).
tick ==
    LET r == tickResult(playbackTs, rangeStartTs, rangeEndTs, playSpeed, loop)
        idle == rangeEndTs <= rangeStartTs
    IN  /\ Interactive
        /\ intervals > 0
        /\ playbackTs' = IF idle THEN playbackTs ELSE r[1]
        /\ isPlaying' = IF idle THEN isPlaying ELSE r[2]
        /\ lastOp' = <<"tick", IF idle THEN 3 ELSE r[3]>>
        /\ UNCHANGED <<propVars, phase, rangeVars, facetVars, settingVars,
                       dragVars>>
        /\ UNCHANGED showAllPoints
        /\ runEffects

\* onChange of the loop checkbox: the value changes.
setLoop(b) ==
    /\ Interactive
    /\ version = "loop"
    /\ b # loop
    /\ loop' = b
    /\ lastOp' = <<"setLoop", 0>>
    /\ UNCHANGED <<propVars, phase, rangeVars, facetVars, playbackTs,
                   isPlaying, playSpeed, dragVars>>
    /\ UNCHANGED showAllPoints
    /\ runEffects

\* onChange of the speed selector: the value changes.
setPlaySpeed(s) ==
    /\ Interactive
    /\ version = "speed"
    /\ s # playSpeed
    /\ playSpeed' = s
    /\ lastOp' = <<"setPlaySpeed", 0>>
    /\ UNCHANGED <<propVars, phase, rangeVars, facetVars, playbackTs,
                   isPlaying, loop, dragVars>>
    /\ UNCHANGED showAllPoints
    /\ runEffects

----------------------------------------------------------------------------
(* Facet toggles *)

\* Mutant: a toggle only ever adds the label.
toggle_AddOnly(set, x) == set \cup {x}

\* next of the updater of a toggle: the set without x if it has x, with x
\* otherwise.
toggle(set, x) == IF x \in set THEN set \ {x} ELSE set \cup {x}

toggleReason(r) ==
    /\ Interactive
    /\ selectedReasons' = toggle(selectedReasons, r)
    /\ lastOp' = <<"toggleReason", 0>>
    /\ UNCHANGED <<propVars, phase, rangeVars, showAllReasons,
                   selectedNeighborhoods, selectedDistricts,
                   selectedDurations, playbackTs,
                   isPlaying, settingVars, dragVars>>
    /\ UNCHANGED showAllPoints
    /\ runEffects

toggleNeighborhood(n) ==
    /\ Interactive
    /\ selectedNeighborhoods' = toggle(selectedNeighborhoods, n)
    /\ lastOp' = <<"toggleNeighborhood", 0>>
    /\ UNCHANGED <<propVars, phase, rangeVars, selectedReasons, showAllReasons,
                   selectedDistricts, selectedDurations, playbackTs,
                   isPlaying, settingVars, dragVars>>
    /\ UNCHANGED showAllPoints
    /\ runEffects

toggleDistrict(d) ==
    /\ Interactive
    /\ selectedDistricts' = toggle(selectedDistricts, d)
    /\ lastOp' = <<"toggleDistrict", 0>>
    /\ UNCHANGED <<propVars, phase, rangeVars, selectedReasons, showAllReasons,
                   selectedNeighborhoods, selectedDurations, playbackTs,
                   isPlaying, settingVars, dragVars>>
    /\ UNCHANGED showAllPoints
    /\ runEffects

toggleDuration(d) ==
    /\ Interactive
    /\ selectedDurations' = toggle(selectedDurations, d)
    /\ lastOp' = <<"toggleDuration", 0>>
    /\ UNCHANGED <<propVars, phase, rangeVars, selectedReasons, showAllReasons,
                   selectedNeighborhoods, selectedDistricts, playbackTs,
                   isPlaying, settingVars, dragVars>>
    /\ UNCHANGED showAllPoints
    /\ runEffects

----------------------------------------------------------------------------
(* Spec: the timeline engine and the range state *)

Next ==
    \/ MountClampEffect
    \/ RangeInitEffect
    \/ setInPoint
    \/ setOutPoint
    \/ \E raw \in RawPcts : handleTrackClick(raw)
    \/ handlePlayheadMouseDown
    \/ \E h \in {"in", "out"} : handleMouseDown(h)
    \/ \E raw \in RawPcts : onMovePlayhead(raw)
    \/ \E raw \in RawPcts : onMoveHandle(raw)
    \/ onUp
    \/ playButton
    \/ tick
    \/ \E b \in BOOLEAN : setLoop(b)
    \/ \E s \in PLAY_SPEEDS : setPlaySpeed(s)

Spec == Init /\ [][Next]_vars

----------------------------------------------------------------------------
(* SpecTick: the interval callback from every playing state of a dataset   *)
(* WideSpan milliseconds long.  Position and range ends are the points a   *)
(* seek or a handle drag can put them at.                                  *)

WideDataset == <<flightAt(1), flightAt(1 + WideSpan)>>

TickPoints ==
    {1 * MS, (1 + NarrowSpan) * MS, (1 * MS) + (WideSpan * MS) \div 2,
     (1 + WideSpan) * MS}

InitTick ==
    /\ version \in {"loop", "speed"}
    /\ flights = WideDataset
    /\ phase = "ready"
    /\ showAllPoints = FALSE
    /\ intervals = 1
    /\ listeners = [playhead |-> 0, handle |-> 0]
    /\ rangeStartTs \in TickPoints
    /\ rangeEndTs \in TickPoints
    /\ rangeStartTs < rangeEndTs
    /\ selectedReasons = {}
    /\ showAllReasons = FALSE
    /\ selectedNeighborhoods = {}
    /\ selectedDistricts = {}
    /\ selectedDurations = {}
    /\ playbackTs \in TickPoints
    /\ isPlaying = TRUE
    /\ loop \in (IF version = "loop" THEN BOOLEAN ELSE {FALSE})
    /\ playSpeed \in (IF version = "speed" THEN PLAY_SPEEDS
                                           ELSE {InitialPlaySpeed})
    /\ dragPlayhead = FALSE
    /\ dragHandle = "none"
    /\ lastOp = <<"playButton", 0>>

NextTick == tick

SpecTick == InitTick /\ [][NextTick]_vars

\* Playback started at the range start and left to the timer; setInterval
\* fires every 40 ms for as long as the interval exists.
InitPlay == InitTick /\ playbackTs = rangeStartTs

FairSpecPlay == InitPlay /\ [][NextTick]_vars /\ WF_vars(tick)

----------------------------------------------------------------------------
(* SpecPanel: seeking, playback and the facet toggles; the range stays     *)
(* where the load put it.                                                  *)

NextPanel ==
    \/ MountClampEffect
    \/ RangeInitEffect
    \/ \E raw \in RawPcts : handleTrackClick(raw)
    \/ handlePlayheadMouseDown
    \/ \E raw \in RawPcts : onMovePlayhead(raw)
    \/ onUp
    \/ playButton
    \/ tick
    \/ \E b \in BOOLEAN : setLoop(b)
    \/ \E s \in PLAY_SPEEDS : setPlaySpeed(s)
    \/ \E r \in ReasonLabels : toggleReason(r)
    \/ \E n \in NeighborhoodLabels : toggleNeighborhood(n)
    \/ \E d \in DistrictLabels : toggleDistrict(d)
    \/ \E d \in DurationIds : toggleDuration(d)

SpecPanel == Init /\ [][NextPanel]_vars

----------------------------------------------------------------------------
(* Reason normalizer.  A JavaScript string is a TLA+ string; null and the   *)
(* values that are not strings are the strings below, which no record      *)
(* holds as text.                                                          *)

Null == "<null>"
Undefined == "<undefined>"
\* Object.prototype members an object literal inherits: the function
\* Object under "constructor", Object.prototype under "__proto__".
ObjectFunction == "<function Object>"
ObjectPrototype == "<object Object.prototype>"
\* The outcome of a call that throws a TypeError.
TypeError == "<TypeError>"

UPPER == "ABCDEFGHIJKLMNOPQRSTUVWXYZ"
LOWER == "abcdefghijklmnopqrstuvwxyz"
WhiteSpace == {" ", "\t"}

charAt(s, i) == SubSeq(s, i, i)

\* The lower-case letter of each upper-case letter.
lowerOf == [c \in {charAt(UPPER, i) : i \in 1..Len(UPPER)} |->
              charAt(LOWER, CHOOSE i \in 1..Len(UPPER) : charAt(UPPER, i) = c)]

toLowerChar(c) == IF c \in DOMAIN lowerOf THEN lowerOf[c] ELSE c

RECURSIVE toLowerCase(_)
toLowerCase(s) ==
    IF Len(s) = 0
    THEN ""
    ELSE toLowerChar(charAt(s, 1)) \o toLowerCase(SubSeq(s, 2, Len(s)))

RECURSIVE trimStart(_)
trimStart(s) ==
    IF Len(s) > 0 /\ charAt(s, 1) \in WhiteSpace
    THEN trimStart(SubSeq(s, 2, Len(s)))
    ELSE s

RECURSIVE trimEnd(_)
trimEnd(s) ==
    IF Len(s) > 0 /\ charAt(s, Len(s)) \in WhiteSpace
    THEN trimEnd(SubSeq(s, 1, Len(s) - 1))
    ELSE s

trim(s) == trimEnd(trimStart(s))

\* (v || ""): null, undefined and the empty string give "".
orEmpty(v) == IF v \in {Null, Undefined, ""} THEN "" ELSE v

\* (v ?? d): null and undefined give d.
orElse(v, d) == IF v \in {Null, Undefined} THEN d ELSE v

\* Mutant: the reason is trimmed but keeps its letter case.
normalizeReason_NoLower(s) == trim(orEmpty(s))

normalizeReason(s) == toLowerCase(trim(orEmpty(s)))

\* The whole table of the source.
REASON_CANONICAL ==
    ("person with gun" :> "Person with weapon") @@
    ("person with a gun" :> "Person with weapon") @@
    ("person with weapon" :> "Person with weapon") @@
    ("person with a weapon" :> "Person with weapon") @@
    ("person w/gun" :> "Person with weapon") @@
    ("person w/gun-shots fired" :> "Person with weapon") @@
    ("subject with gun" :> "Person with weapon") @@
    ("brandishing gun" :> "Person with weapon") @@
    ("gun brandishing" :> "Person with weapon") @@
    ("person with knife" :> "Person with knife") @@
    ("person with a knife" :> "Person with knife") @@
    ("peson with a knife" :> "Person with knife") @@
    ("person with a kinfe" :> "Person with knife") @@
    ("person with kife" :> "Person with knife") @@
    ("person with machete" :> "Person with knife") @@
    ("person with sword" :> "Person with knife") @@
    ("person with a axe" :> "Person with knife") @@
    ("man with a knife" :> "Person with knife") @@
    ("pursuant to a search warrant" :> "Search warrant") @@
    ("search warrant" :> "Search warrant") @@
    ("search warrant service" :> "Search warrant") @@
    ("stolen plate" :> "Stolen plate(s)") @@
    ("stolen plates" :> "Stolen plate(s)") @@
    ("stolen license plate" :> "Stolen plate(s)") @@
    ("stolen license plates" :> "Stolen plate(s)") @@
    ("domestic violence" :> "Domestic violence") @@
    ("domestic violence call" :> "Domestic violence") @@
    ("domestic battery" :> "Domestic violence") @@
    ("domestic violence fight" :> "Domestic violence") @@
    ("suicidal person" :> "Suicidal / crisis") @@
    ("suicidal subject" :> "Suicidal / crisis") @@
    ("suicidal person." :> "Suicidal / crisis") @@
    ("suicide attempt" :> "Suicidal / crisis") @@
    ("suicide" :> "Suicidal / crisis") @@
    ("suicidal" :> "Suicidal / crisis") @@
    ("wanted person" :> "Wanted person") @@
    ("wanted subject" :> "Wanted person") @@
    ("wanted vehicle" :> "Wanted vehicle") @@
    ("wanted suspect" :> "Wanted person") @@
    ("hit and run" :> "Hit and run") @@
    ("hit and run vehicle" :> "Hit and run") @@
    ("hit and run collision" :> "Hit and run") @@
    ("h&r" :> "Hit and run") @@
    ("auto burglary" :> "Auto burglary") @@
    ("auto burglary vehicle" :> "Auto burglary") @@
    ("fight with weapons" :> "Fight") @@
    ("fight with weapon" :> "Fight") @@
    ("fights with weapon" :> "Fight") @@
    ("physical fight" :> "Fight") @@
    ("fight no weapons" :> "Fight") @@
    ("shooting" :> "Shooting / shots fired") @@
    ("shots fired" :> "Shooting / shots fired") @@
    ("person shot" :> "Shooting / shots fired") @@
    ("shooting investigation" :> "Shooting / shots fired") @@
    ("aggravated assault" :> "Aggravated assault") @@
    ("aggravated assault with knife" :> "Aggravated assault") @@
    ("aggravated assault with vehicle" :> "Aggravated assault") @@
    ("search and rescue" :> "Search and rescue") @@
    ("search & rescue" :> "Search and rescue") @@
    ("warrant arrest" :> "Warrant") @@
    ("warrant service" :> "Warrant") @@
    ("warrant" :> "Warrant") @@
    ("arrest warrant" :> "Warrant") @@
    ("trespasser" :> "Trespassing") @@
    ("trespassing" :> "Trespassing") @@
    ("person trespassing" :> "Trespassing") @@
    ("tresspasser" :> "Trespassing") @@
    ("vandalism" :> "Vandalism") @@
    ("malicious mischief" :> "Vandalism") @@
    ("graffiti" :> "Vandalism") @@
    ("missing person" :> "Missing person") @@
    ("missing person at risk" :> "Missing person") @@
    ("missing juvenile" :> "Missing person") @@
    ("missing child" :> "Missing person") @@
    ("missing children" :> "Missing person") @@
    ("lost child" :> "Missing person") @@
    ("missing infant at-risk" :> "Missing person") @@
    ("robbery vehicle" :> "Robbery") @@
    ("robbery with a gun" :> "Robbery") @@
    ("robbery with gun" :> "Robbery") @@
    ("attempted robbery" :> "Robbery") @@
    ("armed robbery, 911 call" :> "Robbery") @@
    ("narcotics sales" :> "Narcotics") @@
    ("narcotics investigation" :> "Narcotics") @@
    ("narcotics sale" :> "Narcotics") @@
    ("narcotics operation" :> "Narcotics") @@
    ("drug dealing" :> "Narcotics") @@
    ("narcotics spotting operation" :> "Narcotics") @@
    ("suspicious vehicle" :> "Suspicious vehicle") @@
    ("suspicious person" :> "Suspicious person") @@
    ("suspicious vehicles" :> "Suspicious vehicle") @@
    ("stolen vehicle" :> "Stolen vehicle") @@
    ("burglary" :> "Burglary") @@
    ("stunt driving" :> "Stunt driving") @@
    ("reckless driving" :> "Reckless driving") @@
    ("fire" :> "Fire") @@
    ("illegal fireworks" :> "Fireworks") @@
    ("fireworks" :> "Fireworks")

\* obj[key] on an object literal: own properties first, then the members
\* of Object.prototype whose names a lowercased key can spell.
getProperty(obj, key) ==
    IF key \in DOMAIN obj THEN obj[key]
    ELSE IF key = "constructor" THEN ObjectFunction
    ELSE IF key = "__proto__" THEN ObjectPrototype
    ELSE Undefined

\* A function or an object for raw has no trim method: normalizeReason
\* throws.
getCanonicalReason(raw) ==
    IF raw \in {ObjectFunction, ObjectPrototype}
    THEN TypeError
    ELSE orElse(getProperty(REASON_CANONICAL, normalizeReason(raw)),
                trim(orEmpty(raw)))

----------------------------------------------------------------------------
(* Facet aggregator and filters: the memoized values of Dashboard, as       *)
(* functions of the state.                                                 *)

DIGITS == "0123456789"

\* The value of each digit.
valueOf == [c \in {charAt(DIGITS, i) : i \in 1..Len(DIGITS)} |->
              (CHOOSE i \in 1..Len(DIGITS) : charAt(DIGITS, i) = c) - 1]

isDigit(c) == c \in DOMAIN valueOf

digitValue(c) == valueOf[c]

allDigits(s) == \A i \in 1..Len(s) : isDigit(charAt(s, i))

RECURSIVE parseDigits(_)
parseDigits(s) ==
    IF Len(s) = 0
    THEN 0
    ELSE parseDigits(SubSeq(s, 1, Len(s) - 1)) * 10
            + digitValue(charAt(s, Len(s)))

\* Number(v) || 0 for null, undefined, blank text, whole numbers and text
\* that is no number (NaN).
numberOrZero(v) ==
    IF v \in {Null, Undefined} THEN 0
    ELSE IF allDigits(trim(v)) THEN parseDigits(trim(v))
    ELSE 0

\* A property name that is an array index: own-property enumeration lists
\* these first, in ascending numeric order, then the other names in the
\* order of their creation.
isArrayIndex(key) ==
    Len(key) > 0 /\ allDigits(key) /\ (Len(key) = 1 \/ charAt(key, 1) # "0")

\* Entries (records with a field key) kept in creation order are
\* enumerated by Object.values / Object.entries in this order.
RECURSIVE sortByIndex(_)
sortByIndex(es) ==
    IF Len(es) = 0
    THEN << >>
    ELSE LET rest == sortByIndex(SubSeq(es, 1, Len(es) - 1))
             x == es[Len(es)]
             p == Cardinality({j \in 1..Len(rest) :
                        parseDigits(rest[j].key) < parseDigits(x.key)})
         IN  SubSeq(rest, 1, p) \o <<x>> \o SubSeq(rest, p + 1, Len(rest))

ownEntries(es) ==
    sortByIndex(SelectSeq(es, LAMBDA e : isArrayIndex(e.key)))
        \o SelectSeq(es, LAMBDA e : ~isArrayIndex(e.key))

\* Mutant: the sort puts the smallest count first.
sortByCountDesc_Ascending(pairs) ==
    LET RECURSIVE asc(_)
        asc(ps) ==
            IF Len(ps) = 0
            THEN << >>
            ELSE LET rest == asc(SubSeq(ps, 1, Len(ps) - 1))
                     x == ps[Len(ps)]
                     p == Cardinality({j \in 1..Len(rest) : rest[j][2] <= x[2]})
                 IN  SubSeq(rest, 1, p) \o <<x>> \o SubSeq(rest, p + 1, Len(rest))
    IN  asc(pairs)

\* .sort((a, b) => b[1] - a[1]) on <<label, count>> pairs: count
\* descending, stable.
RECURSIVE sortByCountDesc(_)
sortByCountDesc(pairs) ==
    IF Len(pairs) = 0
    THEN << >>
    ELSE LET rest == sortByCountDesc(SubSeq(pairs, 1, Len(pairs) - 1))
             x == pairs[Len(pairs)]
             p == Cardinality({j \in 1..Len(rest) : rest[j][2] >= x[2]})
         IN  SubSeq(rest, 1, p) \o <<x>> \o SubSeq(rest, p + 1, Len(rest))

\* Mutant: the upper end of the range is exclusive.
dateFilter_OpenEnd(fs, rs, re) ==
    IF Len(fs) = 0 \/ rs <= 0 \/ re <= 0
    THEN fs
    ELSE SelectSeq(fs, LAMBDA f : f.date >= rs /\ f.date < re)

\* Mutant: the filter also leaves out the first record it is given.
dateFilter_SkipFirst(fs, rs, re) ==
    IF Len(fs) = 0 \/ rs <= 0 \/ re <= 0
    THEN fs
    ELSE Tail(SelectSeq(fs, LAMBDA f : f.date >= rs /\ f.date <= re))

dateFilter(fs, rs, re) ==
    IF Len(fs) = 0 \/ rs <= 0 \/ re <= 0
    THEN fs
    ELSE SelectSeq(fs, LAMBDA f : f.date >= rs /\ f.date <= re)

dateFilteredFlights == dateFilter(flights, rangeStartTs, rangeEndTs)

\* A JavaScript value that passes `if (v)` / `v && ...`.
truthy(v) == v \notin {Null, Undefined, ""}

\* One pass of the loop body of allReasonsWithCount: byCountKey (entries
\* in creation order) after record f.
reasonStep(prev, f) ==
    LET raw == trim(orEmpty(f.reason_for_flight))
        canonical == getCanonicalReason(raw)
        countKey == normalizeReason(canonical)
        mapped == truthy(getProperty(REASON_CANONICAL, normalizeReason(raw)))
        created ==
            IF \E j \in 1..Len(prev) : prev[j].key = countKey
            THEN prev
            ELSE Append(prev, [key |-> countKey, total |-> 0,
                               displayLabel |-> canonical])
        at == CHOOSE j \in 1..Len(created) : created[j].key = countKey
    IN  IF raw = ""
        THEN prev
        ELSE SubSeq(created, 1, at - 1)
                \o <<[created[at] EXCEPT
                        !.total = @ + 1,
                        !.displayLabel = IF mapped THEN canonical ELSE @]>>
                \o SubSeq(created, at + 1, Len(created))

\* The loop over records lo..hi of fs, from byCountKey = acc.  The span is
\* halved and acc is computed first (Len(acc) asks for it), so that the
\* evaluation nests to the logarithm of the span.
RECURSIVE reasonLoop(_, _, _, _)
reasonLoop(acc, fs, lo, hi) ==
    IF Len(acc) < 0 \/ lo > hi THEN acc
    ELSE IF lo = hi THEN reasonStep(acc, fs[lo])
    ELSE LET mid == (lo + hi) \div 2
         IN  reasonLoop(reasonLoop(acc, fs, lo, mid), fs, mid + 1, hi)

reasonEntries(fs) == reasonLoop(<< >>, fs, 1, Len(fs))

reasonsWithCount(fs) ==
    LET es == ownEntries(reasonEntries(fs))
    IN  sortByCountDesc([j \in 1..Len(es) |->
                            <<es[j].displayLabel, es[j].total>>])

allReasonsWithCount == reasonsWithCount(dateFilteredFlights)

MIN_REASON_COUNT == 20
TOP_REASON_CAP == 20

\* Mutant: the list is not cut at the cap.
topReasons_NoCap(all) == SelectSeq(all, LAMBDA b : b[2] >= MIN_REASON_COUNT)

topReasons(all) ==
    LET kept == SelectSeq(all, LAMBDA b : b[2] >= MIN_REASON_COUNT)
    IN  SubSeq(kept, 1, Min(TOP_REASON_CAP, Len(kept)))

topReasonsWithCount == topReasons(allReasonsWithCount)

reasonsToShow ==
    IF showAllReasons THEN allReasonsWithCount ELSE topReasonsWithCount

hasMoreReasons == Len(allReasonsWithCount) > Len(topReasonsWithCount)

\* One pass of a counting loop: counts (entries in creation order) after
\* the label k.
tallyStep(prev, k) ==
    IF ~truthy(k)
    THEN prev
    ELSE IF \E j \in 1..Len(prev) : prev[j].key = k
    THEN LET at == CHOOSE j \in 1..Len(prev) : prev[j].key = k
         IN  SubSeq(prev, 1, at - 1)
                \o <<[prev[at] EXCEPT !.count = @ + 1]>>
                \o SubSeq(prev, at + 1, Len(prev))
    ELSE Append(prev, [key |-> k, count |-> 1])

RECURSIVE tallyLoop(_, _, _, _)
tallyLoop(acc, ks, lo, hi) ==
    IF Len(acc) < 0 \/ lo > hi THEN acc
    ELSE IF lo = hi THEN tallyStep(acc, ks[lo])
    ELSE LET mid == (lo + hi) \div 2
         IN  tallyLoop(tallyLoop(acc, ks, lo, mid), ks, mid + 1, hi)

tally(ks) == tallyLoop(<< >>, ks, 1, Len(ks))

\* Object.entries(counts).sort((a, b) => b[1] - a[1])
entriesByCount(ks) ==
    LET es == ownEntries(tally(ks))
    IN  sortByCountDesc([j \in 1..Len(es) |-> <<es[j].key, es[j].count>>])

UnknownDistrict == "--"

neighborhoodOf(f) == orElse(f.analysis_neighborhood, "Unknown")
districtOf(f) == orElse(f.supervisor_district, UnknownDistrict)

neighborhoodsWithCount ==
    entriesByCount([j \in 1..Len(dateFilteredFlights) |->
                      neighborhoodOf(dateFilteredFlights[j])])

districtsWithCount ==
    entriesByCount([j \in 1..Len(dateFilteredFlights) |->
                      districtOf(dateFilteredFlights[j])])

DURATION_BUCKETS == <<"short", "medium", "long">>

\* Mutant: a flight of exactly 15 minutes passes the medium test as well.
durationTest_Overlap(id, m) ==
    CASE id = "short" -> m <= 15
      [] id = "medium" -> m >= 15 /\ m <= 60
      [] id = "long" -> m > 60

durationTest(id, m) ==
    CASE id = "short" -> m <= 15
      [] id = "medium" -> m > 15 /\ m <= 60
      [] id = "long" -> m > 60

minutesOf(f) == numberOrZero(f.flight_duration_minutes)

\* Mutant: the buckets that count no record are listed as well.
durationsWithCount_KeepEmpty ==
    [b \in 1..Len(DURATION_BUCKETS) |->
        [id |-> DURATION_BUCKETS[b],
         count |-> Cardinality({j \in 1..Len(dateFilteredFlights) :
                      durationTest(DURATION_BUCKETS[b],
                                   minutesOf(dateFilteredFlights[j]))})]]

durationsWithCount ==
    SelectSeq(
        [b \in 1..Len(DURATION_BUCKETS) |->
            [id |-> DURATION_BUCKETS[b],
             count |-> Cardinality({j \in 1..Len(dateFilteredFlights) :
                          durationTest(DURATION_BUCKETS[b],
                                       minutesOf(dateFilteredFlights[j]))})]],
        LAMBDA d : d.count > 0)

\* Mutant: the reason filter compares the labels as they are spelled.
reasonPasses_Exact(f, selected) ==
    getCanonicalReason(orElse(f.reason_for_flight, "")) \in selected

\* The four filter predicates of filteredFlights, each over a record and
\* the selection of its facet.
reasonPasses(f, selected) ==
    normalizeReason(getCanonicalReason(orElse(f.reason_for_flight, "")))
        \in {normalizeReason(r) : r \in selected}

neighborhoodPasses(f, selected) ==
    \/ truthy(f.analysis_neighborhood)
          /\ f.analysis_neighborhood \in selected
    \/ f.analysis_neighborhood = Null /\ "Unknown" \in selected

districtPasses(f, selected) ==
    truthy(f.supervisor_district) /\ f.supervisor_district \in selected

durationPasses(f, selected) ==
    \E b \in 1..Len(DURATION_BUCKETS) :
        /\ DURATION_BUCKETS[b] \in selected
        /\ durationTest(DURATION_BUCKETS[b], minutesOf(f))

\* The memo callback of filteredFlights, over its dependencies.
filteredFlightsMemo(fs, reasons, neighborhoods, districts, durations) ==
    LET out1 == IF Cardinality(reasons) > 0
                THEN SelectSeq(fs, LAMBDA f : reasonPasses(f, reasons))
                ELSE fs
        out2 == IF Cardinality(neighborhoods) > 0
                THEN SelectSeq(out1,
                               LAMBDA f : neighborhoodPasses(f, neighborhoods))
                ELSE out1
        out3 == IF Cardinality(districts) > 0
                THEN SelectSeq(out2, LAMBDA f : districtPasses(f, districts))
                ELSE out2
    IN  IF Cardinality(durations) > 0
        THEN SelectSeq(out3, LAMBDA f : durationPasses(f, durations))
        ELSE out3

filteredFlights ==
    filteredFlightsMemo(dateFilteredFlights, selectedReasons,
                        selectedNeighborhoods, selectedDistricts,
                        selectedDurations)

RECURSIVE totalMinutesOf(_)
totalMinutesOf(fs) ==
    IF Len(fs) = 0 THEN 0 ELSE minutesOf(Head(fs)) + totalMinutesOf(Tail(fs))

\* The summary tiles.
tileStats ==
    [total |-> Len(filteredFlights),
     totalMinutes |-> totalMinutesOf(filteredFlights)]

----------------------------------------------------------------------------
(* SpecReasons: getCanonicalReason applied to the reason of each record of  *)
(* datasets that hold every kind of raw reason.                            *)

\* A record with the fields Dashboard reads.
flight(ms, reason, neighborhood, district, minutes) ==
    [date |-> ms * MS,
     reason_for_flight |-> reason,
     analysis_neighborhood |-> neighborhood,
     supervisor_district |-> district,
     flight_duration_minutes |-> minutes]

\* Raw reasons: table keys in other case and padding, labels that are no
\* key, unmapped text, blank text, null, and a name Object.prototype holds.
RawReasons ==
    {"Person with a gun", "person with gun", "Fire", " FIRE ", "\tfire",
     "Robbery", "robbery", "Traffic stop", "  traffic stop ",
     "Physical Fight", "constructor", "", "   ", Null}

MaxReasonRecords == 2

RECURSIVE SeqsUpTo(_, _)
SeqsUpTo(S, n) ==
    IF n = 0
    THEN {<< >>}
    ELSE LET shorter == SeqsUpTo(S, n - 1)
         IN  shorter \cup {Append(q, x) : q \in shorter, x \in S}

ReasonDatasets ==
    {[i \in 1..Len(q) |-> flight(1, q[i], Null, Null, "")] :
        q \in SeqsUpTo(RawReasons, MaxReasonRecords) \ {<< >>}}

InitReasons ==
    /\ version = "speed"
    /\ flights \in ReasonDatasets
    /\ phase = "mounted"
    /\ showAllPoints = FALSE
    /\ intervals = 0
    /\ listeners = [playhead |-> 0, handle |-> 0]
    /\ rangeStartTs = 0
    /\ rangeEndTs = 0
    /\ selectedReasons = {}
    /\ showAllReasons = FALSE
    /\ selectedNeighborhoods = {}
    /\ selectedDistricts = {}
    /\ selectedDurations = {}
    /\ playbackTs = maxTsOf(flights)
    /\ isPlaying = FALSE
    /\ loop = FALSE
    /\ playSpeed = InitialPlaySpeed
    /\ dragPlayhead = FALSE
    /\ dragHandle = "none"
    /\ lastOp = <<"render", 0>>

\* One call of getCanonicalReason, on the reason of record i; lastOp holds
\* the argument and the result.
canonicalizeRecord(i) ==
    /\ lastOp' = <<"getCanonicalReason", flights[i].reason_for_flight,
                   getCanonicalReason(flights[i].reason_for_flight)>>
    /\ UNCHANGED <<propVars, phase, rangeVars, facetVars, playbackTs,
                   isPlaying, settingVars, dragVars>>
    /\ UNCHANGED showAllPoints
    /\ runEffects

\* One call of getCanonicalReason on the value the last call returned.
canonicalizeResult ==
    /\ lastOp[1] = "getCanonicalReason"
    /\ lastOp' = <<"canonicalizeResult", lastOp[3],
                   getCanonicalReason(lastOp[3])>>
    /\ UNCHANGED <<propVars, phase, rangeVars, facetVars, playbackTs,
                   isPlaying, settingVars, dragVars>>
    /\ UNCHANGED showAllPoints
    /\ runEffects

NextReasons ==
    \/ \E i \in 1..Len(flights) : canonicalizeRecord(i)
    \/ canonicalizeResult

SpecReasons == InitReasons /\ [][NextReasons]_vars

----------------------------------------------------------------------------
(* SpecFacets: the filter panel.  Range-handle drags, the facet buttons    *)
(* that are on screen and the More / Less button, over small datasets.     *)

\* Three records on two days: two spellings of one reason, a null
\* neighborhood and a null district, one duration in each bucket.
DatasetA ==
    <<flight(1, "Person with a gun", "Mission", "9", "15"),
      flight(1, "person with gun", Null, "3", "16"),
      flight(MaxTs, "Fire", "Mission", Null, "61")>>

\* Reasons that differ in case only and are no key of the table, a key
\* whose label they spell, a blank reason; fields missing from the JSON
\* (undefined); districts first seen in descending order.
DatasetB ==
    <<flight(1, "robbery", Undefined, "9", ""),
      flight(2, "Robbery", "Bayview", "3", "n/a"),
      flight(MaxTs, "  ", "", "10", "60"),
      flight(MaxTs, " Attempted Robbery", "Bayview", Undefined, Null)>>

\* A reason and districts that are numerals, a neighborhood and a district
\* seen twice.
DatasetC ==
    <<flight(1, "Traffic stop", "Bayview", "10", "5"),
      flight(2, "911", "Mission", "2", "5"),
      flight(MaxTs, "Fire", "Mission", "10", "20")>>

\* Durations of zero minutes, missing from the JSON, and written with a
\* leading zero; one reason, neighborhood and district.
DatasetD ==
    <<flight(1, "Fire", "Mission", "9", "0"),
      flight(2, "Fire", "Mission", "9", Undefined),
      flight(MaxTs, "Fire", "Mission", "9", "075")>>

FacetDatasets == {DatasetA, DatasetB, DatasetC, DatasetD}

MaxSelected == 2    \* labels selected at a time, over the four facets

selectedCount ==
    Cardinality(selectedReasons) + Cardinality(selectedNeighborhoods)
        + Cardinality(selectedDistricts) + Cardinality(selectedDurations)

\* A button that may be pressed within the bound: one that deselects, or
\* one that selects while fewer than MaxSelected labels are selected.
withinBound(set, x) == x \in set \/ selectedCount < MaxSelected

labelsOf(pairs) == {pairs[j][1] : j \in 1..Len(pairs)}

InitFacets ==
    /\ version = "speed"
    /\ flights \in FacetDatasets
    /\ phase = "mounted"
    /\ showAllPoints = FALSE
    /\ intervals = 0
    /\ listeners = [playhead |-> 0, handle |-> 0]
    /\ rangeStartTs = 0
    /\ rangeEndTs = 0
    /\ selectedReasons = {}
    /\ showAllReasons = FALSE
    /\ selectedNeighborhoods = {}
    /\ selectedDistricts = {}
    /\ selectedDurations = {}
    /\ playbackTs = maxTsOf(flights)
    /\ isPlaying = FALSE
    /\ loop = FALSE
    /\ playSpeed = InitialPlaySpeed
    /\ dragPlayhead = FALSE
    /\ dragHandle = "none"
    /\ lastOp = <<"render", 0>>

\* The More + button (b = TRUE) and the Less button (b = FALSE).
setShowAllReasons(b) ==
    /\ Interactive
    /\ IF b THEN hasMoreReasons /\ ~showAllReasons ELSE showAllReasons
    /\ showAllReasons' = b
    /\ lastOp' = <<"setShowAllReasons", 0>>
    /\ UNCHANGED <<propVars, phase, rangeVars, selectedReasons,
                   selectedNeighborhoods, selectedDistricts,
                   selectedDurations, playbackTs, isPlaying, settingVars,
                   dragVars>>
    /\ UNCHANGED showAllPoints
    /\ runEffects

\* SpecBuckets: the bucket lists under every range the handles reach.
NextBuckets ==
    \/ MountClampEffect
    \/ RangeInitEffect
    \/ \E h \in {"in", "out"} : handleMouseDown(h)
    \/ \E raw \in RawPcts : onMoveHandle(raw)
    \/ onUp
    \/ \E b \in BOOLEAN : setShowAllReasons(b)

SpecBuckets == InitFacets /\ [][NextBuckets]_vars

\* SpecFacets: the facet buttons, with the range at the full extent or
\* narrowed to its first half by the end handle.
NextFacets ==
    \/ MountClampEffect
    \/ RangeInitEffect
    \/ handleMouseDown("out")
    \/ onMoveHandle(50)
    \/ onUp
    \/ \E b \in BOOLEAN : setShowAllReasons(b)
    \/ \E r \in labelsOf(reasonsToShow) :
          withinBound(selectedReasons, r) /\ toggleReason(r)
    \/ \E n \in labelsOf(neighborhoodsWithCount) :
          withinBound(selectedNeighborhoods, n) /\ toggleNeighborhood(n)
    \/ \E d \in labelsOf(districtsWithCount) :
          withinBound(selectedDistricts, d) /\ toggleDistrict(d)
    \/ \E j \in 1..Len(durationsWithCount) :
          /\ withinBound(selectedDurations, durationsWithCount[j].id)
          /\ toggleDuration(durationsWithCount[j].id)

SpecFacets == InitFacets /\ [][NextFacets]_vars

----------------------------------------------------------------------------
(* SpecTopReasons: the reason buttons and the More / Less button over      *)
(* datasets with as many reasons at or above MIN_REASON_COUNT as the cap   *)
(* shows, and with ExtraBuckets more.                                      *)

ExtraBuckets == 2       \* reasons at or above the threshold beyond the cap
MaxTopButtons == 2      \* leading reason buttons that are clicked

topLabel(k) == "Unit " \o charAt(UPPER, k)

\* Records of reason k among n reasons: the first reason has two records
\* more than the threshold, the last one record more, the others as many.
topCount(k, n) ==
    IF k = 1 THEN MIN_REASON_COUNT + 2
    ELSE IF k = n THEN MIN_REASON_COUNT + 1
    ELSE MIN_REASON_COUNT

RECURSIVE copies(_, _)
copies(f, n) == IF n = 0 THEN << >> ELSE <<f>> \o copies(f, n - 1)

RECURSIVE topRecords(_, _)
topRecords(k, n) ==
    IF k = 0
    THEN << >>
    ELSE topRecords(k - 1, n)
            \o copies(flight(1, topLabel(k), "Mission", "9", "10"),
                      topCount(k, n))

\* n reasons at or above the threshold and one reason a record short of it.
TopDataset(n) ==
    topRecords(n, n)
        \o copies(flight(MaxTs, "Fire", "Mission", "9", "10"),
                  MIN_REASON_COUNT - 1)

TopDatasets ==
    {TopDataset(TOP_REASON_CAP), TopDataset(TOP_REASON_CAP + ExtraBuckets)}

InitTop ==
    /\ version = "speed"
    /\ flights \in TopDatasets
    /\ phase = "mounted"
    /\ showAllPoints = FALSE
    /\ intervals = 0
    /\ listeners = [playhead |-> 0, handle |-> 0]
    /\ rangeStartTs = 0
    /\ rangeEndTs = 0
    /\ selectedReasons = {}
    /\ showAllReasons = FALSE
    /\ selectedNeighborhoods = {}
    /\ selectedDistricts = {}
    /\ selectedDurations = {}
    /\ playbackTs = maxTsOf(flights)
    /\ isPlaying = FALSE
    /\ loop = FALSE
    /\ playSpeed = InitialPlaySpeed
    /\ dragPlayhead = FALSE
    /\ dragHandle = "none"
    /\ lastOp = <<"render", 0>>

\* The reason buttons that are clicked: the leading ones and the last one.
topButtons(shown) ==
    {b \in 1..Len(shown) : b <= MaxTopButtons \/ b = Len(shown)}

NextTop ==
    \/ MountClampEffect
    \/ RangeInitEffect
    \/ \E b \in BOOLEAN : setShowAllReasons(b)
    \/ LET shown == reasonsToShow
       IN  \E r \in {shown[b][1] : b \in topButtons(shown)} : toggleReason(r)

SpecTopReasons == InitTop /\ [][NextTop]_vars

----------------------------------------------------------------------------
(* SpecView: the records on the map.  Seeks, playback, the Timeline / All   *)
(* data buttons and two facets, over the small datasets.  The calendar day  *)
(* of the model is DayMs milliseconds long and local midnight falls          *)
(* ZoneOffsetMs milliseconds before a multiple of it.                       *)

DayMs == 2          \* length of a calendar day, in milliseconds
ZoneOffsetMs == 1   \* local time minus UTC, in milliseconds

\* Mutant: the day starts at midnight UTC.
dayStart_UTC(ts) == ts - (ts % (DayMs * MS))

\* Local midnight of the day of ts (Date.setHours(0, 0, 0, 0)).
dayStart(ts) == ts - ((ts + ZoneOffsetMs * MS) % (DayMs * MS))

\* Mutant: the map is given every record, as the timeline is.
mapFlights_Unfiltered == flights

\* The mapFlights prop Dashboard passes.
mapFlights == filteredFlights

visibleFlights ==
    IF version = "speed" /\ showAllPoints
    THEN mapFlights
    ELSE LET playbackDay == dayStart(playbackTs)
         IN  SelectSeq(mapFlights, LAMBDA f : dayStart(f.date) = playbackDay)

\* The Timeline button (b = FALSE) and the All data button (b = TRUE),
\* when the value changes.
setShowAllPoints(b) ==
    /\ Interactive
    /\ version = "speed"
    /\ b # showAllPoints
    /\ showAllPoints' = b
    /\ lastOp' = <<"setShowAllPoints", 0>>
    /\ UNCHANGED <<propVars, phase, rangeVars, facetVars, playbackTs,
                   isPlaying, settingVars, dragVars>>
    /\ runEffects

InitView ==
    /\ version \in {"loop", "speed"}
    /\ flights \in FacetDatasets
    /\ phase = "mounted"
    /\ showAllPoints = FALSE
    /\ intervals = 0
    /\ listeners = [playhead |-> 0, handle |-> 0]
    /\ rangeStartTs = 0
    /\ rangeEndTs = 0
    /\ selectedReasons = {}
    /\ showAllReasons = FALSE
    /\ selectedNeighborhoods = {}
    /\ selectedDistricts = {}
    /\ selectedDurations = {}
    /\ playbackTs = maxTsOf(flights)
    /\ isPlaying = FALSE
    /\ loop = FALSE
    /\ playSpeed = InitialPlaySpeed
    /\ dragPlayhead = FALSE
    /\ dragHandle = "none"
    /\ lastOp = <<"render", 0>>

NextView ==
    \/ MountClampEffect
    \/ RangeInitEffect
    \/ \E raw \in RawPcts : handleTrackClick(raw)
    \/ playButton
    \/ tick
    \/ \E b \in BOOLEAN : setShowAllPoints(b)
    \/ \E n \in labelsOf(neighborhoodsWithCount) : toggleNeighborhood(n)
    \/ \E j \in 1..Len(durationsWithCount) :
          toggleDuration(durationsWithCount[j].id)

SpecView == InitView /\ [][NextView]_vars

----------------------------------------------------------------------------
(* SpecNest: the records on the map and in the summary under seeks, the    *)
(* end handle, the mode buttons and two facets, over the small datasets.   *)

NextNest ==
    \/ MountClampEffect
    \/ RangeInitEffect
    \/ \E raw \in RawPcts : handleTrackClick(raw)
    \/ handleMouseDown("out")
    \/ onMoveHandle(50)
    \/ onUp
    \/ \E b \in BOOLEAN : setShowAllPoints(b)
    \/ \E n \in labelsOf(neighborhoodsWithCount) : toggleNeighborhood(n)
    \/ \E j \in 1..Len(durationsWithCount) :
          toggleDuration(durationsWithCount[j].id)

SpecNest == InitView /\ [][NextNest]_vars

----------------------------------------------------------------------------
(* SpecWave: the activity histogram under a seek, playback, the end handle, *)
(* the mode buttons and the neighborhood buttons.                           *)

NextWave ==
    \/ MountClampEffect
    \/ RangeInitEffect
    \/ handleTrackClick(50)
    \/ playButton
    \/ tick
    \/ handleMouseDown("out")
    \/ onMoveHandle(50)
    \/ onUp
    \/ \E b \in BOOLEAN : setShowAllPoints(b)
    \/ \E n \in labelsOf(neighborhoodsWithCount) : toggleNeighborhood(n)

SpecWave == InitFacets /\ [][NextWave]_vars

----------------------------------------------------------------------------
(* SpecLoad: the server component Home, from the request to the first      *)
(* render of Dashboard and its mount effects.  A coordinate is held in      *)
(* thousandths of a degree.  A point is a record: the null point, or one    *)
(* with a coordinates array.                                               *)

\* SF_COUNTY_BBOX of sf-bounds.ts (a name may not start with SF_).
COUNTY_BBOX ==
    [south |-> 37708, north |-> 37832, west |-> 0 - 122515,
     east |-> 0 - 122355]

NullPoint == [null |-> TRUE]

pointAt(coordinates) == [coordinates |-> coordinates]

hasCoords(f) ==
    /\ "null" \notin DOMAIN f.point
    /\ Len(f.point.coordinates) >= 2

\* Mutant: the longitude is not tested.
isInSFCounty_LatOnly(f) ==
    LET lat == f.point.coordinates[2]
    IN  lat >= COUNTY_BBOX.south /\ lat <= COUNTY_BBOX.north

isInSFCounty(f) ==
    LET lng == f.point.coordinates[1]
        lat == f.point.coordinates[2]
    IN  /\ lat >= COUNTY_BBOX.south
        /\ lat <= COUNTY_BBOX.north
        /\ lng >= COUNTY_BBOX.west
        /\ lng <= COUNTY_BBOX.east

\* Array.prototype.sort by date difference: ascending and stable.
RECURSIVE sortByDate(_)
sortByDate(fs) ==
    IF Len(fs) = 0
    THEN << >>
    ELSE LET rest == sortByDate(SubSeq(fs, 1, Len(fs) - 1))
             x == fs[Len(fs)]
             p == Cardinality({j \in 1..Len(rest) : rest[j].date <= x.date})
         IN  SubSeq(rest, 1, p) \o <<x>> \o SubSeq(rest, p + 1, Len(rest))

\* getStoredFlights() returns an array, and it is not empty.
storedUsable(file) == file.kind = "array" /\ Len(file.data) > 0

\* fetchDroneFlights: the rows of an ok response; throws on an error
\* status, and when fetch rejects.
fetchDroneFlights(api) ==
    IF api.kind = "ok"
    THEN [threw |-> FALSE, data |-> api.data]
    ELSE [threw |-> TRUE, data |-> << >>]

getDroneFlights(file, api) ==
    IF storedUsable(file)
    THEN [threw |-> FALSE, data |-> file.data]
    ELSE fetchDroneFlights(api)

\* The flights prop Home computes from the rows it got.
flightsWithCoords(allFlights) ==
    sortByDate(SelectSeq(SelectSeq(allFlights, hasCoords), isInSFCounty))

\* Home, for a snapshot file and an answer of the API.  An error thrown by
\* getDroneFlights leaves Home unrendered; otherwise Dashboard and
\* MapWithTimeline render for the first time.
Home(file, api) ==
    LET all == getDroneFlights(file, api)
    IN  /\ phase = "server"
        /\ IF all.threw
           THEN /\ phase' = "error"
                /\ UNCHANGED <<flights, playbackTs>>
           ELSE /\ phase' = "mounted"
                /\ flights' = flightsWithCoords(all.data)
                /\ playbackTs' = maxTsOf(flightsWithCoords(all.data))
        /\ lastOp' = <<"Home", file, api>>
        /\ UNCHANGED <<version, rangeVars, facetVars, isPlaying, settingVars,
                       dragVars>>
        /\ UNCHANGED showAllPoints
        /\ runEffects

MaxLoadRecords == 3    \* rows of a snapshot file or an API response

LoadPoints ==
    {NullPoint,
     pointAt(<<0 - 122420>>),
     pointAt(<<0 - 122420, 37770>>),
     pointAt(<<COUNTY_BBOX.west, COUNTY_BBOX.south, 30>>),
     pointAt(<<0 - 122420, COUNTY_BBOX.north + 1>>),
     pointAt(<<COUNTY_BBOX.west - 1, 37770>>)}

LoadRows == {[date |-> ms * MS, point |-> pt] : ms \in {1, MaxTs}, pt \in LoadPoints}

LoadArrays == SeqsUpTo(LoadRows, MaxLoadRecords)

\* The snapshot file: absent, unreadable or no JSON, JSON that is no
\* array, or an array of rows.
StoredFiles ==
    {[kind |-> "missing"], [kind |-> "unreadable"], [kind |-> "notArray"]}
        \cup {[kind |-> "array", data |-> d] : d \in LoadArrays}

\* The API: an ok response with rows, an error status, or no response.
ApiAnswers ==
    {[kind |-> "status"], [kind |-> "failed"]}
        \cup {[kind |-> "ok", data |-> d] : d \in LoadArrays}

\* The API is not asked: getDroneFlights returned the snapshot.
NotAsked == [kind |-> "unused"]

InitLoad ==
    /\ version \in {"loop", "speed"}
    /\ flights = << >>
    /\ phase = "server"
    /\ showAllPoints = FALSE
    /\ intervals = 0
    /\ listeners = [playhead |-> 0, handle |-> 0]
    /\ rangeStartTs = 0
    /\ rangeEndTs = 0
    /\ selectedReasons = {}
    /\ showAllReasons = FALSE
    /\ selectedNeighborhoods = {}
    /\ selectedDistricts = {}
    /\ selectedDurations = {}
    /\ playbackTs = 0
    /\ isPlaying = FALSE
    /\ loop = FALSE
    /\ playSpeed = InitialPlaySpeed
    /\ dragPlayhead = FALSE
    /\ dragHandle = "none"
    /\ lastOp = <<"request", 0>>

NextLoad ==
    \/ \E file \in {s \in StoredFiles : storedUsable(s)} :
          Home(file, NotAsked)
    \/ \E file \in {s \in StoredFiles : ~storedUsable(s)},
          api \in ApiAnswers : Home(file, api)
    \/ MountClampEffect
    \/ RangeInitEffect

SpecLoad == InitLoad /\ [][NextLoad]_vars

----------------------------------------------------------------------------
(* SpecReplay: the play button, the timer and the playback settings from   *)
(* the first render of the dataset of SpecTick; the position moves by      *)
(* playback only.                                                          *)

InitReplay ==
    /\ version \in {"loop", "speed"}
    /\ flights = WideDataset
    /\ phase = "mounted"
    /\ showAllPoints = FALSE
    /\ intervals = 0
    /\ listeners = [playhead |-> 0, handle |-> 0]
    /\ rangeStartTs = 0
    /\ rangeEndTs = 0
    /\ selectedReasons = {}
    /\ showAllReasons = FALSE
    /\ selectedNeighborhoods = {}
    /\ selectedDistricts = {}
    /\ selectedDurations = {}
    /\ playbackTs = maxTsOf(flights)
    /\ isPlaying = FALSE
    /\ loop = FALSE
    /\ playSpeed = InitialPlaySpeed
    /\ dragPlayhead = FALSE
    /\ dragHandle = "none"
    /\ lastOp = <<"render", 0>>

NextReplay ==
    \/ MountClampEffect
    \/ RangeInitEffect
    \/ playButton
    \/ tick
    \/ \E b \in BOOLEAN : setLoop(b)
    \/ \E s \in PLAY_SPEEDS : setPlaySpeed(s)

SpecReplay == InitReplay /\ [][NextReplay]_vars

----------------------------------------------------------------------------
(* SpecRun: playback with the loop disabled, left to the timer, started    *)
(* anywhere inside a range of the dataset of SpecTick.  The pointer is on  *)
(* a pixel of the track, so a range end a handle was dragged to is no      *)
(* whole number of milliseconds in general: RunPoints adds the timestamp   *)
(* under a pointer at one third of the track.  The step of such a range    *)
(* is rounded to a whole unit, as the code rounds it to a double.          *)

RunPoints == TickPoints \cup {(1 * MS) + (WideSpan * MS) \div 3}

InitRun ==
    /\ version \in {"loop", "speed"}
    /\ flights = WideDataset
    /\ phase = "ready"
    /\ showAllPoints = FALSE
    /\ intervals = 1
    /\ listeners = [playhead |-> 0, handle |-> 0]
    /\ rangeStartTs \in RunPoints
    /\ rangeEndTs \in RunPoints
    /\ rangeStartTs < rangeEndTs
    /\ selectedReasons = {}
    /\ showAllReasons = FALSE
    /\ selectedNeighborhoods = {}
    /\ selectedDistricts = {}
    /\ selectedDurations = {}
    /\ playbackTs \in RunPoints
    /\ rangeStartTs <= playbackTs
    /\ playbackTs <= rangeEndTs
    /\ isPlaying = TRUE
    /\ loop = FALSE
    /\ playSpeed \in (IF version = "speed" THEN PLAY_SPEEDS
                                           ELSE {InitialPlaySpeed})
    /\ dragPlayhead = FALSE
    /\ dragHandle = "none"
    /\ lastOp = <<"playButton", 0>>

NextRun == tick

SpecRun == InitRun /\ [][NextRun]_vars

----------------------------------------------------------------------------
(* SpecLife: the timeline operations and the teardown of the component.    *)

\* React unmounts MapWithTimeline: the pending cleanups run and no effect
\* body follows.  The state of the unmounted component is left as it was.
unmount ==
    /\ phase # "unmounted"
    /\ phase' = "unmounted"
    /\ intervals' = playbackEffect(intervals, TRUE, intervalGuard, FALSE)
    /\ listeners' =
          [playhead |-> dragEffect(listeners.playhead, TRUE, dragPlayhead,
                                   FALSE),
           handle |-> dragEffect(listeners.handle, TRUE, dragHandle # "none",
                                 FALSE)]
    /\ lastOp' = <<"unmount", 0>>
    /\ UNCHANGED <<propVars, rangeVars, facetVars, playbackTs, isPlaying,
                   settingVars, dragVars, showAllPoints>>

NextLife ==
    \/ MountClampEffect
    \/ RangeInitEffect
    \/ setInPoint
    \/ setOutPoint
    \/ \E raw \in RawPcts : handleTrackClick(raw)
    \/ handlePlayheadMouseDown
    \/ \E h \in {"in", "out"} : handleMouseDown(h)
    \/ \E raw \in RawPcts : onMovePlayhead(raw)
    \/ \E raw \in RawPcts : onMoveHandle(raw)
    \/ onUp
    \/ playButton
    \/ tick
    \/ \E b \in BOOLEAN : setLoop(b)
    \/ unmount

SpecLife == Init /\ [][NextLife]_vars

----------------------------------------------------------------------------
(* Properties *)

TypeOK ==
    /\ version \in {"loop", "speed"}
    /\ phase \in {"server", "error", "mounted", "clamped", "ready",
                   "unmounted"}
    /\ showAllPoints \in BOOLEAN
    /\ intervals \in Nat
    /\ listeners \in [{"playhead", "handle"} -> Nat]
    /\ isPlaying \in BOOLEAN
    /\ dragHandle \in {"in", "out", "none"}

InRange == rangeStartTs <= playbackTs /\ playbackTs <= rangeEndTs

\* The timestamp under a pointer at pct percent of the track.
claimTs(pct) == minTs + ((maxTs - minTs) * pct) \div 100

\* The step of section 4.4: max(1, (rangeEnd - rangeStart) / 500 * speed);
\* the loop revision has no speed selector and plays at 1x.
claimStep ==
    LET mult == IF version = "speed" THEN playSpeed ELSE SpeedDenom
    IN  Max(MS, ((rangeEndTs - rangeStartTs) * mult)
                    \div (STEP_DIVISOR * SpeedDenom))

\* C1 as claimed: once a dataset with two distinct timestamps is loaded, the
\* playback position lies within [rangeStart, rangeEnd] in every state.
C1_Claim == (phase = "ready" /\ maxTs > minTs) => InRange

\* C1 amended: for a dataset with two distinct timestamps, every operation
\* other than a seek (tick, play/pause, handle drag, set in/out point, load)
\* keeps a position that is within [rangeStart, rangeEnd] within it; a seek
\* puts the position anywhere in [minTs, maxTs], also outside the range.
C1_Thm ==
    [][ /\ (maxTs > minTs /\ InRange
              /\ lastOp'[1] \notin {"trackClick", "movePlayhead"})
           => (rangeStartTs' <= playbackTs' /\ playbackTs' <= rangeEndTs')
        /\ lastOp'[1] \in {"trackClick", "movePlayhead"}
           => (minTs <= playbackTs' /\ playbackTs' <= maxTs) ]_vars

\* C1 witness: dragging the start handle pushed the position along.
C1_Witness ==
    /\ lastOp[1] = "moveHandle"
    /\ dragHandle = "in"
    /\ maxTs > minTs
    /\ playbackTs = rangeStartTs
    /\ rangeStartTs > minTs

\* C2: rangeStart <= rangeEnd in every reachable state, after any sequence
\* of handle drags and set-in-point / set-out-point calls.
C2_Claim == rangeStartTs <= rangeEndTs

C4_Thm ==
    [][ /\ (lastOp'[1] = "tick" /\ isPlaying /\ loop
              /\ playbackTs + claimStep >= rangeEndTs)
           => (playbackTs' = rangeStartTs /\ isPlaying')
        /\ (loop /\ isPlaying /\ ~isPlaying') => lastOp'[1] = "playButton"
      ]_vars

\* C4 witness: looped playback has wrapped to the range start.
C4_Witness ==
    /\ lastOp = <<"tick", 2>>
    /\ loop
    /\ isPlaying
    /\ playbackTs = rangeStartTs
    /\ rangeStartTs < rangeEndTs

\* C5: a tick while playing on a non-degenerate range advances the position
\* by exactly step = max(1, (rangeEnd - rangeStart) / 500 * speed) whenever
\* the advanced position is below rangeEnd.
C5_Thm ==
    [][ (lastOp'[1] = "tick" /\ isPlaying /\ rangeStartTs < rangeEndTs
           /\ playbackTs + claimStep < rangeEndTs)
        => (playbackTs' = playbackTs + claimStep /\ isPlaying') ]_vars

\* C5 witness: a tick at speed 0.75x over the whole extent, where the step
\* is proportional (more than one millisecond).
C5_Witness ==
    /\ lastOp = <<"tick", 0>>
    /\ version = "speed"
    /\ playSpeed = 3
    /\ rangeEndTs - rangeStartTs = WideSpan * MS
    /\ playbackTs = rangeStartTs + (3 * WideSpan * MS) \div (STEP_DIVISOR * SpeedDenom)

\* C6: the play button toggles isPlaying; from stopped, a position below
\* rangeStart or above rangeEnd is first set to rangeStart; otherwise, and
\* from playing, the position is unchanged.
C6_Thm ==
    [][ lastOp'[1] = "playButton"
        => /\ isPlaying' = ~isPlaying
           /\ playbackTs' =
                 IF ~isPlaying /\ (playbackTs < rangeStartTs
                                      \/ playbackTs > rangeEndTs)
                 THEN rangeStartTs
                 ELSE playbackTs ]_vars

\* C6 witness: play was pressed with the position before the range start
\* or after the range end, and the position snapped to the range start.
C6_Witness ==
    /\ lastOp = <<"playButton", 1>>
    /\ isPlaying
    /\ playbackTs = rangeStartTs
    /\ maxTs > minTs

\* C7: playback started at rangeStart with loop disabled on a
\* non-degenerate range and followed by ticks only eventually rests at
\* position = rangeEnd with isPlaying = FALSE, for ever.
C7_Thm ==
    (isPlaying /\ ~loop /\ rangeStartTs < rangeEndTs
        /\ playbackTs = rangeStartTs)
    ~> [](playbackTs = rangeEndTs /\ ~isPlaying)

\* C7 witness: the loop revision, started at the start of the whole extent,
\* has come to rest at its end.
C7_Witness ==
    /\ lastOp = <<"tick", 1>>
    /\ version = "loop"
    /\ ~loop
    /\ ~isPlaying
    /\ rangeStartTs = minTs
    /\ rangeEndTs = maxTs
    /\ playbackTs = rangeEndTs

\* C8: a seek (track click or playhead-drag move) sets the position to the
\* timestamp under the pointer, stopped or playing, and leaves isPlaying,
\* the range, loop, speed and the facet selections unchanged.
C8_Thm ==
    [][ lastOp'[1] \in {"trackClick", "movePlayhead"}
        => /\ playbackTs' = claimTs(lastOp'[2])
           /\ UNCHANGED <<isPlaying, rangeStartTs, rangeEndTs, loop,
                          playSpeed, selectedReasons, selectedNeighborhoods,
                          selectedDistricts, selectedDurations>> ]_vars

\* C8 witness: a seek during playback put the position after the range end.
C8_Witness ==
    /\ lastOp[1] \in {"trackClick", "movePlayhead"}
    /\ isPlaying
    /\ playbackTs = claimTs(lastOp[2])
    /\ playbackTs > rangeEndTs
    /\ rangeStartTs < rangeEndTs

\* C9: dragging the start handle to d sets rangeStart = min(d, rangeEnd - 1)
\* and keeps rangeEnd; dragging the end handle to d sets rangeEnd =
\* max(d, rangeStart + 1) and keeps rangeStart.
C9_Thm ==
    [][ lastOp'[1] = "moveHandle"
        => LET d == claimTs(lastOp'[2])
           IN  /\ dragHandle = "in"
                  => /\ rangeStartTs' = Min(d, rangeEndTs - MS)
                     /\ rangeEndTs' = rangeEndTs
               /\ dragHandle = "out"
                  => /\ rangeEndTs' = Max(d, rangeStartTs + MS)
                     /\ rangeStartTs' = rangeStartTs ]_vars

\* C9 witness (scenario D): the start handle was dragged to a timestamp
\* after rangeEnd and rangeStart is rangeEnd - 1.
C9_Witness ==
    /\ lastOp[1] = "moveHandle"
    /\ dragHandle = "in"
    /\ claimTs(lastOp[2]) > rangeEndTs
    /\ rangeStartTs = rangeEndTs - MS

C11_Claim ==
    phase = "ready" => (minTs <= rangeStartTs /\ rangeEndTs <= maxTs)

\* C12 as claimed: directly after every change of the range the position
\* equals max(rangeStart, min(rangeEnd, previous position)).
C12_Claim ==
    [][ <<rangeStartTs', rangeEndTs'>> # <<rangeStartTs, rangeEndTs>>
        => playbackTs' = Max(rangeStartTs', Min(rangeEndTs', playbackTs))
      ]_vars

\* C12 amended: directly after a change of the range the position equals
\* max(rangeStart, min(rangeEnd, previous position)) when the dataset has
\* two distinct timestamps, and is the previous position when it has not.
C12_Thm ==
    [][ <<rangeStartTs', rangeEndTs'>> # <<rangeStartTs, rangeEndTs>>
        => playbackTs' =
              IF maxTs > minTs
              THEN Max(rangeStartTs', Min(rangeEndTs', playbackTs))
              ELSE playbackTs ]_vars

\* C12 witness: the end handle was dragged below the position and the
\* position came down with it.
C12_Witness ==
    /\ lastOp[1] = "moveHandle"
    /\ dragHandle = "out"
    /\ maxTs > minTs
    /\ rangeEndTs < maxTs
    /\ playbackTs = rangeEndTs
    /\ playbackTs > rangeStartTs

\* The label section 4.1 gives a raw reason: the table's label when the
\* trimmed, lowercased text is a key, else the trimmed text; "" for null.
claimCanonical(raw) ==
    LET text == IF raw = Null THEN "" ELSE raw
        key == toLowerCase(trim(text))
    IN  IF key \in DOMAIN REASON_CANONICAL
        THEN REASON_CANONICAL[key]
        ELSE trim(text)

\* C16 as claimed: canonicalize returns the mapped label for every raw
\* string whose trimmed, lowercased form is a key of the table, the trimmed
\* input for every other string, and "" for empty or null input.
C16_Claim ==
    lastOp[1] = "getCanonicalReason" => lastOp[3] = claimCanonical(lastOp[2])

\* The records of the dataset dated within [rangeStart, rangeEnd], in
\* their order.
claimDateSubset ==
    SelectSeq(flights,
              LAMBDA f : rangeStartTs <= f.date /\ f.date <= rangeEndTs)

\* C13 as claimed: for every record list and every time range the
\* date-filtered subset is exactly the records with rangeStart <= t <=
\* rangeEnd, in their original order.
C13_Claim == dateFilteredFlights = claimDateSubset

\* C13 amended: when both ends of the range are positive the date-filtered
\* subset is exactly the records with rangeStart <= t <= rangeEnd, in their
\* original order; when an end is zero or negative (the initial range
\* (0, 0)) it is the whole record list.
C13_Thm ==
    dateFilteredFlights =
        IF rangeStartTs > 0 /\ rangeEndTs > 0 THEN claimDateSubset ELSE flights

\* C13 witness (scenario B): of three records on two days, the range
\* narrowed to the first day keeps the two records of that day.
C13_Witness ==
    /\ lastOp[1] = "moveHandle"
    /\ Len(flights) = 3
    /\ rangeStartTs = flights[1].date
    /\ rangeEndTs < flights[3].date
    /\ dateFilteredFlights = <<flights[1], flights[2]>>

\* The label a record carries in each facet (section 4.2): the canonical
\* reason, the neighborhood name or "Unknown", the district id or the
\* sentinel, the duration bucket of the thresholds 15 and 60 minutes.
claimNeighborhood(f) ==
    IF f.analysis_neighborhood \in {Null, Undefined}
    THEN "Unknown"
    ELSE f.analysis_neighborhood

claimDistrict(f) ==
    IF f.supervisor_district \in {Null, Undefined}
    THEN UnknownDistrict
    ELSE f.supervisor_district

claimDuration(f) ==
    LET m == numberOrZero(f.flight_duration_minutes)
    IN  IF m <= 15 THEN "short" ELSE IF m <= 60 THEN "medium" ELSE "long"

\* A reason label of the selection names the record's canonical reason,
\* letter case aside.
claimReasonSelected(f) ==
    \E r \in selectedReasons :
        toLowerCase(r) = toLowerCase(claimCanonical(f.reason_for_flight))

\* C14 as claimed: the filtered subset is the date-filtered subset
\* restricted to the records that, in each of the four facets, carry one
\* of the selected labels or meet an empty selection.
C14_Claim ==
    filteredFlights =
        SelectSeq(dateFilteredFlights,
            LAMBDA f :
                /\ selectedReasons = {} \/ claimReasonSelected(f)
                /\ selectedNeighborhoods = {}
                      \/ claimNeighborhood(f) \in selectedNeighborhoods
                /\ selectedDistricts = {}
                      \/ claimDistrict(f) \in selectedDistricts
                /\ selectedDurations = {}
                      \/ claimDuration(f) \in selectedDurations)

\* Only reason labels are selected.
onlyReasonsSelected ==
    /\ selectedReasons # {}
    /\ selectedNeighborhoods = {}
    /\ selectedDistricts = {}
    /\ selectedDurations = {}

\* C15 as claimed: with reason labels selected, the filtered subset holds
\* every record whose raw reason canonicalizes to a selected label and no
\* record whose raw reason canonicalizes to a different label.
C15_Claim ==
    onlyReasonsSelected
    => filteredFlights =
          SelectSeq(dateFilteredFlights,
              LAMBDA f : claimCanonical(f.reason_for_flight)
                            \in selectedReasons)

\* C15 amended: with reason labels selected, the filtered subset holds
\* exactly the records whose canonical reason equals a selected label up
\* to letter case: every raw variant the table maps to the label, and also
\* the unmapped reasons that spell the label in another case.
C15_Thm ==
    onlyReasonsSelected
    => filteredFlights = SelectSeq(dateFilteredFlights, claimReasonSelected)

\* C15 witness: "Person with weapon" is selected and the filtered subset
\* is the two records that spell it "Person with a gun" and "person with
\* gun".
C15_Witness ==
    /\ lastOp[1] = "toggleReason"
    /\ selectedReasons = {"Person with weapon"}
    /\ onlyReasonsSelected
    /\ Len(filteredFlights) = 2
    /\ filteredFlights[1].reason_for_flight = "Person with a gun"
    /\ filteredFlights[2].reason_for_flight = "person with gun"

\* The canonical labels of the date-filtered records, blank ones aside.
claimLabels ==
    {claimCanonical(dateFilteredFlights[j].reason_for_flight) :
        j \in 1..Len(dateFilteredFlights)} \ {""}

\* The date-filtered records whose canonical reason is L / is L up to
\* letter case.
claimRecordsOf(L) ==
    {j \in 1..Len(dateFilteredFlights) :
        claimCanonical(dateFilteredFlights[j].reason_for_flight) = L}

claimRecordsLike(L) ==
    {j \in 1..Len(dateFilteredFlights) :
        toLowerCase(claimCanonical(dateFilteredFlights[j].reason_for_flight))
            = toLowerCase(L)}

\* C17 as claimed: the reason facet has one bucket per canonical label,
\* with count the number of date-filtered records whose raw reason
\* canonicalizes to that label.
C17_Claim ==
    /\ Len(allReasonsWithCount) = Cardinality(claimLabels)
    /\ \A L \in claimLabels :
          \E b \in 1..Len(allReasonsWithCount) :
              allReasonsWithCount[b] = <<L, Cardinality(claimRecordsOf(L))>>

\* C17 amended: the reason facet has one bucket per canonical label up to
\* letter case; its count is the number of date-filtered records whose
\* canonical reason spells the label in any case, and its label is the
\* canonical reason of one of them, the table's label when the table maps
\* one of them.
C17_Thm ==
    /\ Len(allReasonsWithCount)
          = Cardinality({toLowerCase(L) : L \in claimLabels})
    /\ \A b \in 1..Len(allReasonsWithCount) :
          LET label == allReasonsWithCount[b][1]
              members == claimRecordsLike(label)
          IN  /\ label \in claimLabels
              /\ allReasonsWithCount[b][2] = Cardinality(members)
              /\ \A j \in members :
                    toLowerCase(trim(dateFilteredFlights[j].reason_for_flight))
                        \in DOMAIN REASON_CANONICAL
                    => label = claimCanonical(
                                  dateFilteredFlights[j].reason_for_flight)
    /\ \A b1, b2 \in 1..Len(allReasonsWithCount) :
          toLowerCase(allReasonsWithCount[b1][1])
              = toLowerCase(allReasonsWithCount[b2][1]) => b1 = b2

\* C17 witness (scenario A): reasons "Person with a gun", "person with
\* gun", "Fire" give the buckets ("Person with weapon", 2), ("Fire", 1).
C17_Witness ==
    /\ phase = "ready"
    /\ Len(dateFilteredFlights) = 3
    /\ dateFilteredFlights[1].reason_for_flight = "Person with a gun"
    /\ dateFilteredFlights[2].reason_for_flight = "person with gun"
    /\ dateFilteredFlights[3].reason_for_flight = "Fire"
    /\ allReasonsWithCount = <<<<"Person with weapon", 2>>, <<"Fire", 1>>>>

RECURSIVE claimSum(_)
claimSum(counts) ==
    IF Len(counts) = 0
    THEN 0
    ELSE counts[1] + claimSum(SubSeq(counts, 2, Len(counts)))

claimCounts(pairs) == [b \in 1..Len(pairs) |-> pairs[b][2]]

\* pairs is a list of <<label, count>> buckets with distinct labels, each
\* counting the date-filtered records that carry its label under value(_).
claimPartition(pairs, value(_)) ==
    /\ \A b1, b2 \in 1..Len(pairs) : pairs[b1][1] = pairs[b2][1] => b1 = b2
    /\ \A b \in 1..Len(pairs) :
          pairs[b][2] = Cardinality({j \in 1..Len(dateFilteredFlights) :
                            value(dateFilteredFlights[j]) = pairs[b][1]})

claimReasonKey(f) == toLowerCase(claimCanonical(f.reason_for_flight))

claimWithValue(value(_)) ==
    Cardinality({j \in 1..Len(dateFilteredFlights) :
                    value(dateFilteredFlights[j]) # ""})

\* C18: in each facet the bucket counts add up to the number of
\* date-filtered records whose value in the facet (canonical reason,
\* neighborhood name or "Unknown", district id or sentinel, duration
\* bucket) is not empty, and every record is counted in the one bucket of
\* its value.
C18_Thm ==
    LET reasons == [b \in 1..Len(allReasonsWithCount) |->
                      <<toLowerCase(allReasonsWithCount[b][1]),
                        allReasonsWithCount[b][2]>>]
        durations == [b \in 1..Len(durationsWithCount) |->
                        <<durationsWithCount[b].id,
                          durationsWithCount[b].count>>]
    IN  /\ claimSum(claimCounts(reasons)) = claimWithValue(claimReasonKey)
        /\ claimPartition(reasons, claimReasonKey)
        /\ claimSum(claimCounts(neighborhoodsWithCount))
              = claimWithValue(claimNeighborhood)
        /\ claimPartition(neighborhoodsWithCount, claimNeighborhood)
        /\ claimSum(claimCounts(districtsWithCount))
              = claimWithValue(claimDistrict)
        /\ claimPartition(districtsWithCount, claimDistrict)
        /\ claimSum(claimCounts(durations)) = Len(dateFilteredFlights)
        /\ claimPartition(durations, claimDuration)

\* C18 witness: four records, one with a blank reason and an empty
\* neighborhood, one with no district: the reason counts and the
\* neighborhood counts add up to three, the district and duration counts
\* to four.
C18_Witness ==
    /\ phase = "ready"
    /\ Len(dateFilteredFlights) = 4
    /\ claimSum(claimCounts(allReasonsWithCount)) = 3
    /\ claimSum(claimCounts(neighborhoodsWithCount)) = 3
    /\ claimSum(claimCounts(districtsWithCount)) = 4
    /\ claimSum([b \in 1..Len(durationsWithCount) |->
                    durationsWithCount[b].count]) = 4

\* Index of the first date-filtered record whose value is label.
claimFirstSeen(label, value(_)) ==
    CHOOSE j \in 1..Len(dateFilteredFlights) :
        /\ value(dateFilteredFlights[j]) = label
        /\ \A k \in 1..(j - 1) : value(dateFilteredFlights[k]) # label

claimNumeral(label) ==
    /\ Len(label) > 0
    /\ \A i \in 1..Len(label) : isDigit(charAt(label, i))
    /\ Len(label) = 1 \/ charAt(label, 1) # "0"

\* The counts of pairs never rise.
claimDescending(pairs) ==
    \A b \in 1..(Len(pairs) - 1) : pairs[b][2] >= pairs[b + 1][2]

\* Buckets of pairs with equal counts stand in first-seen order.
claimTiesFirstSeen(pairs, value(_)) ==
    \A b \in 1..(Len(pairs) - 1) :
        pairs[b][2] = pairs[b + 1][2]
        => claimFirstSeen(pairs[b][1], value)
              < claimFirstSeen(pairs[b + 1][1], value)

\* Buckets of pairs with equal counts: numeral labels first, in ascending
\* numeric order, then the other labels in first-seen order.
claimTiesNumeralsFirst(pairs, value(_)) ==
    \A b \in 1..(Len(pairs) - 1) :
        LET x == pairs[b][1]
            y == pairs[b + 1][1]
        IN  pairs[b][2] = pairs[b + 1][2]
            => IF claimNumeral(x) /\ claimNumeral(y)
               THEN parseDigits(x) < parseDigits(y)
               ELSE IF claimNumeral(x) \/ claimNumeral(y)
               THEN claimNumeral(x)
               ELSE claimFirstSeen(x, value) < claimFirstSeen(y, value)

claimReasonKeys ==
    [b \in 1..Len(allReasonsWithCount) |->
        <<toLowerCase(allReasonsWithCount[b][1]), allReasonsWithCount[b][2]>>]

\* C19 as claimed: the reason, neighborhood and district bucket lists are
\* ordered by count descending, buckets with equal counts in the order
\* their labels were first seen in the record sequence.
C19_Claim ==
    /\ claimDescending(allReasonsWithCount)
    /\ claimTiesFirstSeen(claimReasonKeys, claimReasonKey)
    /\ claimDescending(neighborhoodsWithCount)
    /\ claimTiesFirstSeen(neighborhoodsWithCount, claimNeighborhood)
    /\ claimDescending(districtsWithCount)
    /\ claimTiesFirstSeen(districtsWithCount, claimDistrict)

\* C19 amended: the three bucket lists are ordered by count descending;
\* among buckets with equal counts those whose label is a numeral (every
\* district id) come first, in ascending numeric order, and the others
\* follow in the order their labels were first seen.
C19_Thm ==
    /\ claimDescending(allReasonsWithCount)
    /\ claimTiesNumeralsFirst(claimReasonKeys, claimReasonKey)
    /\ claimDescending(neighborhoodsWithCount)
    /\ claimTiesNumeralsFirst(neighborhoodsWithCount, claimNeighborhood)
    /\ claimDescending(districtsWithCount)
    /\ claimTiesNumeralsFirst(districtsWithCount, claimDistrict)

\* C19 witness: districts first seen as "9", "3", none are listed "3",
\* "9", sentinel with one record each; the neighborhood seen twice is
\* listed before the one seen once.
C19_Witness ==
    /\ phase = "ready"
    /\ Len(dateFilteredFlights) = 3
    /\ dateFilteredFlights[1].supervisor_district = "9"
    /\ dateFilteredFlights[2].supervisor_district = "3"
    /\ districtsWithCount = <<<<"3", 1>>, <<"9", 1>>, <<UnknownDistrict, 1>>>>
    /\ neighborhoodsWithCount = <<<<"Mission", 2>>, <<"Unknown", 1>>>>

\* The buckets of a list, as a set of (label, count) pairs.
claimBuckets(pairs) == {pairs[b] : b \in 1..Len(pairs)}

\* The default view: only buckets with count >= MIN_REASON_COUNT, at most
\* TOP_REASON_CAP of them, each one a bucket of the full list, and every
\* bucket left out either below the threshold or, the view being full, with
\* a count no higher than any bucket shown.
claimDefaultView(list, full) ==
    LET shown == claimBuckets(list)
        all == claimBuckets(full)
        length == Len(list)
    IN  /\ length <= TOP_REASON_CAP
        /\ Cardinality(shown) = length
        /\ shown \subseteq all
        /\ \A b \in shown : b[2] >= MIN_REASON_COUNT
        /\ \A b \in all \ shown :
              \/ b[2] < MIN_REASON_COUNT
              \/ /\ length = TOP_REASON_CAP
                 /\ \A c \in shown : b[2] <= c[2]

claimView ==
    LET full == allReasonsWithCount
        list == IF showAllReasons THEN full ELSE topReasons(full)
    IN  /\ list = reasonsToShow
        /\ IF showAllReasons
           THEN list = full
           ELSE claimDefaultView(list, full)

\* A step of the More / Less button leaves the filtered subset and the four
\* selections as they were.
claimToggleKeeps ==
    lastOp'[1] = "setShowAllReasons"
    => /\ filteredFlightsMemo(dateFilteredFlights', selectedReasons',
                              selectedNeighborhoods', selectedDistricts',
                              selectedDurations') = filteredFlights
       /\ selectedReasons' = selectedReasons
       /\ selectedNeighborhoods' = selectedNeighborhoods
       /\ selectedDistricts' = selectedDistricts
       /\ selectedDurations' = selectedDurations

\* C20: in the default view the displayed reason facet holds only buckets
\* with count >= 20, at most 20 of them, the highest-count ones; with
\* show-all on it is the full list; toggling show-all changes neither the
\* filtered subset nor any selection.
C20_Thm == [](phase = "ready" => claimView) /\ [][claimToggleKeeps]_vars

\* C20 witness: back in the default view after More and Less, with a reason
\* selected: 20 buckets are shown and a bucket at the threshold is left out.
C20_Witness ==
    /\ phase = "ready"
    /\ lastOp[1] = "setShowAllReasons"
    /\ ~showAllReasons
    /\ selectedReasons # {}
    /\ Len(reasonsToShow) = TOP_REASON_CAP
    /\ \E b \in 1..Len(allReasonsWithCount) :
          /\ allReasonsWithCount[b][2] >= MIN_REASON_COUNT
          /\ allReasonsWithCount[b] \notin claimBuckets(reasonsToShow)

\* The minutes of a record as claimed: the whole number its duration text
\* spells, and 0 for a missing, blank or non-numeric duration.
claimMinutes(f) ==
    LET v == f.flight_duration_minutes
        text == IF v \in {Null, Undefined} THEN "" ELSE trim(v)
    IN  IF Len(text) > 0 /\ \A i \in 1..Len(text) : isDigit(charAt(text, i))
        THEN parseDigits(text)
        ELSE 0

\* The duration bucket of m minutes, by the thresholds of the claim.
claimBucketOf(m) ==
    IF m <= 15 THEN "short" ELSE IF m <= 60 THEN "medium" ELSE "long"

claimBucketCount(id) ==
    Cardinality({j \in 1..Len(dateFilteredFlights) :
                    claimBucketOf(claimMinutes(dateFilteredFlights[j])) = id})

\* C21: every record passes the test of exactly one duration bucket, the
\* one of its minutes by the thresholds 15 and 60, a missing, zero or
\* non-numeric duration counting as 0 minutes; the duration facet lists, in
\* the order short, medium, long, exactly the buckets that count a record,
\* each with its count.
C21_Thm ==
    /\ \A j \in 1..Len(flights) :
          /\ minutesOf(flights[j]) = claimMinutes(flights[j])
          /\ {b \in 1..Len(DURATION_BUCKETS) :
                 durationTest(DURATION_BUCKETS[b], minutesOf(flights[j]))}
                = {b \in 1..Len(DURATION_BUCKETS) :
                      DURATION_BUCKETS[b]
                         = claimBucketOf(claimMinutes(flights[j]))}
          /\ Cardinality({b \in 1..Len(DURATION_BUCKETS) :
                 durationTest(DURATION_BUCKETS[b], minutesOf(flights[j]))})
                = 1
    /\ durationsWithCount
          = SelectSeq([b \in 1..Len(DURATION_BUCKETS) |->
                          [id |-> DURATION_BUCKETS[b],
                           count |-> claimBucketCount(DURATION_BUCKETS[b])]],
                      LAMBDA d : claimBucketCount(d.id) > 0)
    /\ \A b \in 1..Len(durationsWithCount) : durationsWithCount[b].count > 0

\* C21 witness: a blank, a non-numeric and a null duration are counted with
\* the short flights, and the long bucket, which counts no record, is not
\* listed.
C21_Witness ==
    /\ phase = "ready"
    /\ \E j \in 1..Len(dateFilteredFlights) :
          dateFilteredFlights[j].flight_duration_minutes = "n/a"
    /\ \E j \in 1..Len(dateFilteredFlights) :
          dateFilteredFlights[j].flight_duration_minutes = Null
    /\ durationsWithCount
          = <<[id |-> "short", count |-> 3], [id |-> "medium", count |-> 1]>>

\* The calendar day of a timestamp, counted in local time.
claimDay(ts) == (ts + ZoneOffsetMs * MS) \div (DayMs * MS)

claimVisible ==
    LET filtered == filteredFlights
    IN  visibleFlights
           = IF showAllPoints
             THEN filtered
             ELSE SelectSeq(filtered,
                            LAMBDA f : claimDay(f.date) = claimDay(playbackTs))

\* A step of the Timeline / All data buttons leaves position, play state
\* and range as they were.
claimModeKeeps ==
    lastOp'[1] = "setShowAllPoints"
    => /\ playbackTs' = playbackTs
       /\ isPlaying' = isPlaying
       /\ rangeStartTs' = rangeStartTs
       /\ rangeEndTs' = rangeEndTs

\* C22: the mode is single-day after the first render; in single-day mode
\* the visible records are exactly the filtered records whose date is on
\* the calendar day of the playback position, in all-data mode exactly the
\* filtered subset; switching mode changes neither position, play state nor
\* range.
C22_Thm ==
    /\ [](phase = "mounted" => ~showAllPoints)
    /\ [](phase = "ready" => claimVisible)
    /\ [][claimModeKeeps]_vars

\* C22 witness: back in single-day mode while playing, with a neighborhood
\* selected: some but not all of the filtered records are on the day of
\* the position, and the filter holds back a record of that day.
C22_Witness ==
    /\ phase = "ready"
    /\ lastOp[1] = "setShowAllPoints"
    /\ ~showAllPoints
    /\ isPlaying
    /\ selectedNeighborhoods # {}
    /\ Len(visibleFlights) > 0
    /\ Len(visibleFlights) < Len(filteredFlights)
    /\ \E j \in 1..Len(flights) :
          /\ claimDay(flights[j].date) = claimDay(playbackTs)
          /\ \A k \in 1..Len(visibleFlights) : visibleFlights[k] # flights[j]

\* C23: an interval timer is live only while the component is mounted and
\* playing, and never more than one; the step that stops playback and the
\* teardown leave no timer live; every tick that runs finds isPlaying
\* true.
C23_Thm ==
    /\ [](intervals <= 1)
    /\ [](intervals > 0 => isPlaying /\ phase # "unmounted")
    /\ [][isPlaying /\ ~isPlaying' => intervals' = 0]_vars
    /\ [][lastOp'[1] = "unmount" => intervals' = 0]_vars
    /\ [][lastOp'[1] = "tick" => isPlaying]_vars

\* C23 witness: the component is torn down while playing, the position
\* inside the range, and the timer that was live is cleared.
C23_Witness ==
    /\ phase = "unmounted"
    /\ isPlaying
    /\ rangeEndTs > rangeStartTs
    /\ playbackTs > rangeStartTs
    /\ playbackTs < rangeEndTs
    /\ intervals = 0

\* C24: window listeners are attached exactly while the component is
\* mounted and a drag is in progress, the two of the effect of that drag;
\* the pointer release and the teardown leave none attached; a pointer
\* move changes position or range only during a drag.
C24_Thm ==
    /\ [](listeners.playhead
             = IF dragPlayhead /\ phase # "unmounted" THEN 2 ELSE 0)
    /\ [](listeners.handle
             = IF dragHandle # "none" /\ phase # "unmounted" THEN 2 ELSE 0)
    /\ [][lastOp'[1] \in {"up", "unmount"}
             => listeners' = [playhead |-> 0, handle |-> 0]]_vars
    /\ [][lastOp'[1] = "movePlayhead" => dragPlayhead]_vars
    /\ [][lastOp'[1] = "moveHandle" => dragHandle # "none"]_vars
    /\ [][~dragging /\ ~dragging'
             => \/ lastOp'[1] \notin {"movePlayhead", "moveHandle"}
                \/ UNCHANGED <<playbackTs, rangeStartTs, rangeEndTs>>]_vars

\* C24 witness: the component is torn down while a range handle is being
\* dragged, after the drag moved the range, and no listener is left.
C24_Witness ==
    /\ phase = "unmounted"
    /\ dragHandle = "out"
    /\ rangeEndTs < maxTs
    /\ listeners = [playhead |-> 0, handle |-> 0]

\* A dataset without extent: no records, or all records at one timestamp.
claimDegenerate == Len(flights) = 0 \/ maxTs <= minTs

\* C25 as claimed: for a degenerate dataset timestamp-to-percent is 0, the
\* histogram is all zeros, the date filter passes every record, and no tick
\* changes the position.
C25_Claim ==
    /\ [](claimDegenerate
             => /\ tsToPct(playbackTs) = <<0, 1>>
                /\ tsToPct(rangeStartTs) = <<0, 1>>
                /\ tsToPct(rangeEndTs) = <<0, 1>>
                /\ \A b \in 1..WAVEFORM_BUCKETS : waveformHeights[b] = <<0, 1>>
                /\ dateFilteredFlights = flights)
    /\ [][claimDegenerate /\ lastOp'[1] = "tick"
             => playbackTs' = playbackTs]_vars

\* The time range and the facet selections applied to the records fs.
claimFilter(fs) ==
    filteredFlightsMemo(dateFilter(fs, rangeStartTs, rangeEndTs),
                        selectedReasons, selectedNeighborhoods,
                        selectedDistricts, selectedDurations)

\* The inputs of the filter.
claimFilterInputs ==
    <<flights, rangeStartTs, rangeEndTs, selectedReasons,
      selectedNeighborhoods, selectedDistricts, selectedDurations>>

\* C26: the filtered subset is the time range and the selections applied
\* to the records; applying them to the filtered subset returns it
\* unchanged; a step that changes none of records, range and selections
\* leaves the filtered subset as it was.
C26_Thm ==
    /\ [](/\ filteredFlights = claimFilter(flights)
          /\ claimFilter(filteredFlights) = filteredFlights)
    /\ [][claimFilterInputs' = claimFilterInputs
             => filteredFlightsMemo(dateFilteredFlights', selectedReasons',
                                    selectedNeighborhoods',
                                    selectedDistricts', selectedDurations')
                   = filteredFlights]_vars

\* C26 witness: the range is narrowed and a label is selected; the range
\* holds back a record, the selection another, and a record passes.
C26_Witness ==
    /\ phase = "ready"
    /\ Len(dateFilteredFlights) < Len(flights)
    /\ Len(filteredFlights) < Len(dateFilteredFlights)
    /\ Len(filteredFlights) > 0
    /\ claimFilter(filteredFlights) = filteredFlights

\* The part (0-based) of record j among WAVEFORM_BUCKETS equal parts of
\* [minTs, maxTs]: each part holds its lower end, the last one maxTs too.
claimPartOf(j) ==
    LET offset == (flights[j].date - minTs) * WAVEFORM_BUCKETS
        span == maxTs - minTs
    IN  CHOOSE b \in 0..(WAVEFORM_BUCKETS - 1) :
           \/ b * span <= offset /\ offset < (b + 1) * span
           \/ b = WAVEFORM_BUCKETS - 1 /\ flights[j].date = maxTs

claimHistogram ==
    LET heights == waveformHeights
    IN  /\ DOMAIN heights = 1..WAVEFORM_BUCKETS
        /\ IF claimDegenerate
           THEN \A b \in 1..WAVEFORM_BUCKETS : heights[b] = <<0, 1>>
           ELSE LET part == [j \in 1..Len(flights) |-> claimPartOf(j)] \o << >>
                    count == [b \in 1..WAVEFORM_BUCKETS |->
                                Cardinality({j \in 1..Len(flights) :
                                                part[j] = b - 1})] \o << >>
                    top == CHOOSE m \in {count[b] : b \in 1..WAVEFORM_BUCKETS} :
                              \A b \in 1..WAVEFORM_BUCKETS : count[b] <= m
                IN  \A b \in 1..WAVEFORM_BUCKETS :
                       /\ heights[b] = <<count[b], top>>
                       /\ 0 <= heights[b][1]
                       /\ heights[b][1] <= heights[b][2]

\* C27: the histogram has WAVEFORM_BUCKETS heights; for a dataset with an
\* extent, height b is the number of records in part b of the equal parts
\* of [minTs, maxTs] over the largest such number, a quotient in [0, 1];
\* for a dataset without extent every height is 0; a tick, a seek, a range
\* change, a mode change or a facet toggle leaves the histogram as it was.
C27_Thm ==
    /\ [](claimHistogram)
    /\ [][flights' = flights
             => waveformHeightsMemo(flights', minTs', maxTs')
                   = waveformHeights]_vars

\* C27 witness: two of three records share the first part and the third is
\* at maxTs, in the last part; the range is narrowed, a label is selected
\* and playback has moved the position.
C27_Witness ==
    /\ phase = "ready"
    /\ waveformHeights[1] = <<2, 2>>
    /\ waveformHeights[WAVEFORM_BUCKETS] = <<1, 2>>
    /\ rangeEndTs < maxTs
    /\ selectedNeighborhoods # {}
    /\ lastOp[1] = "tick"

\* A record with a coordinate pair inside the county bounding box.
claimInBox(f) ==
    /\ f.point # NullPoint
    /\ Len(f.point.coordinates) >= 2
    /\ f.point.coordinates[1] >= 0 - 122515
    /\ f.point.coordinates[1] <= 0 - 122355
    /\ f.point.coordinates[2] >= 37708
    /\ f.point.coordinates[2] <= 37832

\* The rows Home obtained in the step that rendered it.
claimRows(file, api) == IF api = NotAsked THEN file.data ELSE api.data

\* C28: every record of the sequence the dashboard holds has a coordinate
\* pair inside the county bounding box, and the sequence is in ascending
\* date order; the records Home hands over are rows it obtained.
C28_Thm ==
    /\ [](phase \in {"mounted", "clamped", "ready"}
             => /\ \A j \in 1..Len(flights) : claimInBox(flights[j])
                /\ \A j \in 1..(Len(flights) - 1) :
                      flights[j].date <= flights[j + 1].date)
    /\ [][lastOp'[1] = "Home" /\ phase' = "mounted"
             => \A j \in 1..Len(flights') :
                   \E k \in 1..Len(claimRows(lastOp'[2], lastOp'[3])) :
                      claimRows(lastOp'[2], lastOp'[3])[k] = flights'[j]]_vars

\* C28 witness: the API answered three rows in descending date order, the
\* second one outside the box; Home has handed the other two to the
\* dashboard in ascending order.
C28_Witness ==
    /\ phase = "mounted"
    /\ lastOp[1] = "Home"
    /\ lastOp[3].kind = "ok"
    /\ Len(lastOp[3].data) = 3
    /\ Len(flights) = 2
    /\ flights[1].date < flights[2].date
    /\ lastOp[3].data[1] = flights[2]
    /\ ~claimInBox(lastOp[3].data[2])
    /\ lastOp[3].data[3] = flights[1]

\* The upstream fetch fails: no usable snapshot, and the API answers with
\* an error status or does not answer.
claimFetchFails(file, api) ==
    /\ file.kind = "array" => Len(file.data) = 0
    /\ api.kind \in {"status", "failed"}

\* C29 as claimed: when the upstream fetch fails, Home renders the
\* dashboard with an empty record sequence and no error is propagated.
C29_Claim ==
    [][lastOp'[1] = "Home" /\ claimFetchFails(lastOp'[2], lastOp'[3])
          => phase' = "mounted" /\ flights' = << >>]_vars

\* The bucket list shows the label, it is the only label selected in its
\* facet, and the filtered subset has as many records as the bucket counts.
claimAlone(pairs, selected) ==
    \A j \in 1..Len(pairs) :
        selected = {pairs[j][1]} => Len(filteredFlights) = pairs[j][2]

\* C30 as claimed: with one label of the neighborhood facet or of the
\* district facet selected and every other selection empty, the filtered
\* subset has exactly as many records as the bucket of that label counts.
C30_Claim ==
    phase = "ready" /\ selectedReasons = {} /\ selectedDurations = {}
        => /\ selectedDistricts = {}
                 => claimAlone(neighborhoodsWithCount, selectedNeighborhoods)
           /\ selectedNeighborhoods = {}
                 => claimAlone(districtsWithCount, selectedDistricts)

\* C31 as claimed: directly after any tick the position is at most the
\* current rangeEnd.
C31_Claim == [][lastOp'[1] = "tick" => playbackTs' <= rangeEndTs']_vars

\* C31 amended: directly after a tick on a non-degenerate range the
\* position is at most the current rangeEnd, whatever the range and the
\* speed were at the tick before; a tick on a degenerate range leaves the
\* position where it was, also when a seek has put it after rangeEnd.
C31_Thm ==
    [][lastOp'[1] = "tick"
          => /\ UNCHANGED <<rangeStartTs, rangeEndTs>>
             /\ IF rangeStartTs < rangeEndTs
                THEN playbackTs' <= rangeEndTs
                ELSE playbackTs' = playbackTs]_vars

\* C31 witness: in the speed revision, with the range end dragged below
\* the last timestamp and the speed changed from its initial value, a tick
\* has put the position on the range end.
C31_Witness ==
    /\ lastOp = <<"tick", 1>>
    /\ version = "speed"
    /\ rangeEndTs < maxTs
    /\ rangeStartTs < rangeEndTs
    /\ playSpeed # InitialPlaySpeed
    /\ playbackTs = rangeEndTs

\* C32: with loop disabled, a play command directly after playback has
\* stopped at rangeEnd leaves the position at rangeEnd and starts playing;
\* the tick that follows a play command at rangeEnd stops playback again
\* with the position still rangeEnd.
C32_Thm ==
    [][ /\ (lastOp = <<"tick", 1>> /\ ~loop /\ lastOp'[1] = "playButton")
           => /\ playbackTs = rangeEndTs
              /\ playbackTs' = rangeEndTs
              /\ ~isPlaying /\ isPlaying'
        /\ (lastOp[1] = "playButton" /\ isPlaying /\ ~loop
              /\ rangeStartTs < rangeEndTs /\ playbackTs = rangeEndTs
              /\ lastOp'[1] = "tick")
           => /\ playbackTs' = rangeEndTs
              /\ ~isPlaying' ]_vars

\* C32 witness: playback is the only thing that moves the position here,
\* so it has run to the range end and stopped; play was pressed, the
\* position is still the range end and the state is playing.
C32_Witness ==
    /\ lastOp = <<"playButton", 0>>
    /\ isPlaying
    /\ ~loop
    /\ rangeStartTs < rangeEndTs
    /\ playbackTs = rangeEndTs

\* C33: the first render of a dataset with two distinct timestamps has the
\* range (0, 0) and the position at maxTs; the clamp against (0, 0) and the
\* clamp against the full extent, which the range is then set to, leave the
\* position at minTs, not at maxTs.
C33_Thm ==
    /\ [](phase = "mounted"
             => /\ rangeStartTs = 0 /\ rangeEndTs = 0
                /\ playbackTs = maxTs)
    /\ [][(lastOp'[1] = "rangeInit" /\ maxTs > minTs)
             => /\ rangeStartTs' = minTs /\ rangeEndTs' = maxTs
                /\ playbackTs' = minTs
                /\ playbackTs' # maxTs]_vars

\* C33 witness: Home has rendered two records of different dates, the
\* mount effects have run and the position is the earlier date.
C33_Witness ==
    /\ phase = "ready"
    /\ lastOp[1] = "rangeInit"
    /\ Len(flights) = 2
    /\ flights[1].date < flights[2].date
    /\ rangeStartTs = flights[1].date
    /\ rangeEndTs = flights[2].date
    /\ playbackTs = flights[1].date

\* ceil(500 / s) for the speed s of the state; the loop revision plays at
\* 1x.
claimTickBound ==
    LET q == IF version = "speed" THEN playSpeed ELSE SpeedDenom
    IN  (STEP_DIVISOR * SpeedDenom + q - 1) \div q

\* The number of ticks after which playback at position t stops: the least
\* k >= 1 with t + k * step >= rangeEnd.
claimTicksLeft ==
    IF playbackTs >= rangeEndTs
    THEN 1
    ELSE (rangeEndTs - playbackTs + claimStep - 1) \div claimStep

\* A tick with more than one tick left keeps playing with one tick less
\* left; the tick with one tick left stops at rangeEnd.
claimCountdown ==
    (lastOp'[1] = "tick" /\ isPlaying /\ ~loop /\ rangeStartTs < rangeEndTs)
        => IF claimTicksLeft > 1
           THEN isPlaying' /\ claimTicksLeft' = claimTicksLeft - 1
           ELSE ~isPlaying' /\ playbackTs' = rangeEndTs

\* Playback runs inside a non-degenerate range with the loop disabled.
claimRunning ==
    isPlaying /\ ~loop /\ rangeStartTs < rangeEndTs /\ InRange

\* C34 as claimed: playback inside a non-degenerate range, loop disabled,
\* left to the timer, stops at rangeEnd after at most ceil(500 / s) ticks.
C34_Claim ==
    /\ [](claimRunning => claimTicksLeft <= claimTickBound)
    /\ [][claimCountdown]_vars

\* C34 amended: it stops at rangeEnd after at most ceil(500 / s) + 1
\* ticks; the one tick more is needed where the rounded step is smaller
\* than (rangeEnd - rangeStart) / 500 * s.
C34_Thm ==
    /\ [](claimRunning => claimTicksLeft <= claimTickBound + 1)
    /\ [][claimCountdown]_vars

\* C34 witness: ceil(500 / s) ticks after the range start playback is
\* still running, below the range end; the next tick stops it.
C34_Witness ==
    /\ lastOp = <<"tick", 0>>
    /\ claimRunning
    /\ playbackTs = rangeStartTs + claimTickBound * claimStep
    /\ playbackTs < rangeEndTs
    /\ claimTicksLeft = 1

\* The records of a are records of b, in the order b has them.
RECURSIVE claimWithin(_, _)
claimWithin(a, b) ==
    IF Len(a) = 0 THEN TRUE
    ELSE IF Len(b) = 0 THEN FALSE
    ELSE IF Head(a) = Head(b) THEN claimWithin(Tail(a), Tail(b))
    ELSE claimWithin(a, Tail(b))

\* C35: the visible records are among the filtered subset, which is among
\* the date-filtered subset, which is among the loaded records; the total
\* of the summary is the number of records of the filtered subset.
C35_Thm ==
    /\ claimWithin(visibleFlights, filteredFlights)
    /\ claimWithin(filteredFlights, dateFilteredFlights)
    /\ claimWithin(dateFilteredFlights, flights)
    /\ tileStats.total = Cardinality(DOMAIN filteredFlights)

\* C35 witness: each collection is smaller than the one it is taken from:
\* the range is narrowed, a label is selected and the position is on the
\* day of no filtered record.
C35_Witness ==
    /\ phase = "ready"
    /\ Len(visibleFlights) < Len(filteredFlights)
    /\ Len(filteredFlights) < Len(dateFilteredFlights)
    /\ Len(dateFilteredFlights) < Len(flights)
    /\ tileStats.total = Len(filteredFlights)

\* The labels that are in exactly one of two sets.
claimChanged(old, new) == (old \ new) \cup (new \ old)

\* One label went into the set or out of it, and a second toggle of that
\* label gives the set back.
claimToggled(old, new) ==
    /\ Cardinality(claimChanged(old, new)) = 1
    /\ \A x \in claimChanged(old, new) : toggle(new, x) = old

\* The selection each toggle handler owns.
claimFacets ==
    [toggleReason |-> selectedReasons,
     toggleNeighborhood |-> selectedNeighborhoods,
     toggleDistrict |-> selectedDistricts,
     toggleDuration |-> selectedDurations]

\* C36: a facet toggle puts one label into the selection of its facet or
\* takes one out of it, and a second toggle of the label restores the
\* selection; the selections of the other three facets, the time range,
\* the playback position and the play state stay as they were.
C36_Thm ==
    [][lastOp'[1] \in DOMAIN claimFacets
          => /\ claimToggled(claimFacets[lastOp'[1]], claimFacets'[lastOp'[1]])
             /\ \A h \in DOMAIN claimFacets \ {lastOp'[1]} :
                   claimFacets'[h] = claimFacets[h]
             /\ UNCHANGED <<rangeStartTs, rangeEndTs, playbackTs,
                            isPlaying>>]_vars

\* C36 witness: during playback, with a reason selected and the position
\* inside the range, a duration bucket has been toggled a second time and
\* the duration selection is empty again.
C36_Witness ==
    /\ lastOp[1] = "toggleDuration"
    /\ selectedDurations = {}
    /\ selectedReasons # {}
    /\ isPlaying
    /\ rangeStartTs < playbackTs
    /\ playbackTs < rangeEndTs

\* C37 as claimed: for every raw string, getCanonicalReason applied to the
\* label it returned returns that label.
C37_Claim == lastOp[1] = "canonicalizeResult" => lastOp[3] = lastOp[2]

\* The sum of the first n bucket counts of the histogram hs.
RECURSIVE claimCounted(_, _)
claimCounted(hs, n) ==
    IF n = 0 THEN 0 ELSE hs[n][1] + claimCounted(hs, n - 1)

\* C38: for a dataset with an extent the bucket counts of the histogram
\* sum to the number of records, the records at maxTs are counted in the
\* last bucket, and at least one bucket has relative height 1.
C38_Thm ==
    maxTs > minTs
        => LET hs == waveformHeights
           IN  /\ claimCounted(hs, WAVEFORM_BUCKETS) = Len(flights)
               /\ hs[WAVEFORM_BUCKETS][1]
                     >= Cardinality({j \in 1..Len(flights) :
                                        flights[j].date = maxTs})
               /\ \E b \in 1..WAVEFORM_BUCKETS :
                     hs[b][1] = hs[b][2] /\ hs[b][1] >= 1

\* C38 witness: a dataset with an extent whose first bucket counts more
\* records than its last one, which counts the record at maxTs; the other
\* buckets are empty.
C38_Witness ==
    /\ phase = "ready"
    /\ maxTs > minTs
    /\ waveformHeights[1][1] > waveformHeights[WAVEFORM_BUCKETS][1]
    /\ waveformHeights[WAVEFORM_BUCKETS][1] = 1
    /\ waveformHeights[1][1] + 1 = Len(flights)

====
